---- MODULE Spec2Model ----
(***************************************************************************)
(* PatientHero: the guardrail validator and chat endpoint (api_server.py), *)
(* the intake / reasoning orchestrator (crewai_agents/main.py) and the     *)
(* parallel appointment scraper (process_clinics_parallel.py).             *)
(*                                                                         *)
(* Texts are TLA+ strings; a character is a string of length 1.  Regular   *)
(* expressions of the source are written as syntax trees and matched by    *)
(* Ends, a backtracking matcher that returns every end position.           *)
(***************************************************************************)
EXTENDS Integers, Sequences, FiniteSets, TLC

VARIABLES
    \* --- GuardrailValidator called on one text (SpecGuard)
    user_input,          \* the text handed to validate_user_input
    input_result,        \* <<>>, or the one-element tuple of what it returned
    \* --- GuardrailValidator called on one generated text (SpecReply)
    ai_response,         \* the text handed to validate_ai_response
    ai_result,           \* <<>>, or the one-element tuple of what it returned
    \* --- ClinicProcessor.clean_appointment_slots called on one list (SpecClean)
    slots,               \* the slot list handed to clean_appointment_slots
    cleaned_slots,       \* <<>> or <<what it returned>>
    \* --- process_clinics_parallel (SpecDiscover)
    clinics,             \* the clinic list handed to process_clinics_parallel
    results,             \* its local list results
    disc_pc,             \* where process_clinics_parallel stands
    batch_start,         \* the loop variable i
    tasks,               \* the process_clinic coroutines of the running batch
    browser,             \* the module global browser
    contexts,            \* the clinics (by index) whose browser context is open
    output_file,         \* <<>> or <<the list main() wrote to OUTPUT_FILE>>
    \* --- the /api/chat endpoint (Spec)
    patient_sessions,    \* the module global patient_sessions: id -> patient_data of the instance
    session_counters,    \* the module global session_counters
    wandb_run,           \* <<>> when monitoring is off, else <<run.current_session_id>>
    patient_files,       \* patient_data_<suffix>.json: suffix -> list of snapshots
    extracted_file,      \* extracted_patient_data.json
    continuations,       \* the records handed to ExaHelper, in order
    chat_response,       \* <<>> or <<what the last request was answered with>>
    turn,                \* the last request: what process_user_input did with it, what the
                         \* validators returned and the guardrail_table rows they added
    served,              \* for each processed request: the id it carried, the record it used
    \* --- ExaHelper.process_patient_from_main called once (SpecFind)
    exa,                 \* self.exa: TRUE when the client is configured, FALSE when it is None
    exa_insurance,       \* patient_data.get('insurance'): <<>> or <<text>>
    search_results,      \* result.results of exa.search_and_contents
    hospitals,           \* <<>> or <<the list process_patient_from_main returned>>
    processed_file,      \* <<>> or <<the list written to processed_medical_data.json>>
    \* --- process_clinic and clean_appointment_data on one page (SpecPipeline)
    clinic_page,         \* <<>> or <<what the clinic's site does when visited>>
    extraction,          \* <<>> or <<what extract_appointment_slots returned, and the stages run>>
    clinic_result,       \* <<>> or <<the dict process_clinic returned>>
    clinic_summary,      \* <<>> or <<the dict clean_appointment_data made of it>>
    \* --- two process_clinics_parallel tasks on one event loop (SpecOverlap)
    module_browser,      \* the module global browser: 0 for None, else the browser it refers to
    browsers,            \* the browsers launched so far: "open" or "closed"
    runs,                \* for each run: where it stands, the browser it launched, its tasks
    \* --- _pass_to_exa_helper called several times in one process (SpecHandoff)
    scheduled            \* for each continuation: what the finder returned, what the run loaded

guardVars == <<user_input, input_result, ai_response, ai_result>>
cleanVars == <<slots, cleaned_slots>>
discVars  == <<clinics, results, disc_pc, batch_start, tasks, browser, contexts, output_file>>
chatVars  == <<patient_sessions, session_counters, wandb_run, patient_files, extracted_file,
               continuations, chat_response, turn, served>>
findVars  == <<exa, exa_insurance, search_results, hospitals, processed_file>>
pipeVars  == <<clinic_page, extraction, clinic_result, clinic_summary>>
overlapVars == <<module_browser, browsers, runs>>
handoffVars == <<scheduled>>
vars == <<user_input, input_result, ai_response, ai_result, slots, cleaned_slots,
          clinics, results, disc_pc, batch_start, tasks, browser, contexts,
          patient_sessions, session_counters, wandb_run, patient_files, extracted_file,
          continuations, chat_response, turn, served,
          exa, exa_insurance, search_results, hospitals, processed_file,
          clinic_page, extraction, clinic_result, clinic_summary,
          module_browser, browsers, runs, output_file, scheduled>>

\* The parts of the program a specification does not run stay as they are
\* at import time.
GuardIdle == user_input = "" /\ input_result = <<>> /\ ai_response = "" /\ ai_result = <<>>
CleanIdle == slots = <<>> /\ cleaned_slots = <<>>
DiscIdle ==
    /\ clinics = <<>>
    /\ results = <<>>
    /\ disc_pc = "idle"
    /\ batch_start = 0
    /\ tasks = <<>>
    /\ browser = "None"
    /\ contexts = {}
    /\ output_file = <<>>

NoTurn ==
    [n |-> 0, session_id |-> "", text |-> "", key |-> <<>>, was_complete |-> FALSE,
     calls |-> <<>>, intake |-> <<>>, out |-> <<>>, reasoning |-> <<>>, response |-> <<>>,
     validations |-> <<>>, events |-> <<>>, helper |-> "ok"]

ChatIdle ==
    /\ patient_sessions = <<>>
    /\ session_counters = <<>>
    /\ wandb_run = <<>>
    /\ patient_files = <<>>
    /\ extracted_file = <<>>
    /\ continuations = <<>>
    /\ chat_response = <<>>
    /\ turn = NoTurn
    /\ served = {}

FindIdle ==
    /\ exa = FALSE
    /\ exa_insurance = <<>>
    /\ search_results = <<>>
    /\ hospitals = <<>>
    /\ processed_file = <<>>

PipeIdle ==
    /\ clinic_page = <<>>
    /\ extraction = <<>>
    /\ clinic_result = <<>>
    /\ clinic_summary = <<>>

OverlapIdle ==
    /\ module_browser = 0
    /\ browsers = <<>>
    /\ runs = <<>>

HandoffIdle == scheduled = <<>>

(***************************************************************************)
(* Characters and Python string helpers                                    *)
(***************************************************************************)
LowerAlpha == "abcdefghijklmnopqrstuvwxyz"
UpperAlpha == "ABCDEFGHIJKLMNOPQRSTUVWXYZ"
DigitChars == "0123456789"

CharsOf(s) == {SubSeq(s, k, k) : k \in 1..Len(s)}

LOWER == CharsOf(LowerAlpha)
UPPER == CharsOf(UpperAlpha)
DIGIT == CharsOf(DigitChars)
ALPHA == LOWER \cup UPPER
WORD  == ALPHA \cup DIGIT \cup {"_"}
SPACE == {" ", "\n", "\t", "\r"}

IndexIn(c, alphabet) == CHOOSE k \in 1..Len(alphabet) : SubSeq(alphabet, k, k) = c

LowerChar(c) == IF c \in UPPER THEN LET k == IndexIn(c, UpperAlpha) IN SubSeq(LowerAlpha, k, k) ELSE c
UpperChar(c) == IF c \in LOWER THEN LET k == IndexIn(c, LowerAlpha) IN SubSeq(UpperAlpha, k, k) ELSE c

RECURSIVE lower(_)
\* str.lower()
lower(s) == IF Len(s) = 0 THEN "" ELSE LowerChar(SubSeq(s, 1, 1)) \o lower(SubSeq(s, 2, Len(s)))

RECURSIVE lstrip(_)
lstrip(s) == IF Len(s) > 0 /\ SubSeq(s, 1, 1) \in SPACE THEN lstrip(SubSeq(s, 2, Len(s))) ELSE s

RECURSIVE rstrip(_)
rstrip(s) == IF Len(s) > 0 /\ SubSeq(s, Len(s), Len(s)) \in SPACE THEN rstrip(SubSeq(s, 1, Len(s) - 1)) ELSE s

\* str.strip()
strip(s) == rstrip(lstrip(s))

\* `needle in haystack` on strings
Contains(haystack, needle) ==
    \E i \in 1..(Len(haystack) - Len(needle) + 1) : SubSeq(haystack, i, i + Len(needle) - 1) = needle

(***************************************************************************)
(* Regular expressions (Python re)                                         *)
(***************************************************************************)
Lit(str)        == [t |-> "lit", s |-> str]
Cls(S)          == [t |-> "cls", c |-> S]
NotCls(S)       == [t |-> "ncls", c |-> S]
AnyChar         == [t |-> "any"]
Cat(rs)         == [t |-> "cat", rs |-> rs]
Alt(rs)         == [t |-> "alt", rs |-> rs]
Rep(r, lo, hi)  == [t |-> "rep", r |-> r, lo |-> lo, hi |-> hi]
Unbounded       == -1
Star(r)         == Rep(r, 0, Unbounded)
Plus(r)         == Rep(r, 1, Unbounded)
Opt(r)          == Rep(r, 0, 1)
WordB           == [t |-> "wb"]
Bol             == [t |-> "bol"]
Eol             == [t |-> "eol"]
LookAhead(r)    == [t |-> "ahead", r |-> r]

IsWordAt(s, i) == i >= 1 /\ i <= Len(s) /\ SubSeq(s, i, i) \in WORD

InCls(c, S, ic) == c \in S \/ (ic /\ (LowerChar(c) \in S \/ UpperChar(c) \in S))

RECURSIVE Ends(_, _, _, _)
RECURSIVE CatEnds(_, _, _, _, _)
RECURSIVE RepEnds(_, _, _, _, _, _, _)

\* The positions just after a match of r that starts at position i of s
\* (ic: re.IGNORECASE).
Ends(r, s, i, ic) ==
    CASE r.t = "lit" ->
            LET n == Len(r.s) IN
            IF i + n - 1 <= Len(s)
               /\ (IF ic THEN lower(SubSeq(s, i, i + n - 1)) = lower(r.s)
                         ELSE SubSeq(s, i, i + n - 1) = r.s)
            THEN {i + n} ELSE {}
      [] r.t = "cls"  -> IF i <= Len(s) /\ InCls(SubSeq(s, i, i), r.c, ic) THEN {i + 1} ELSE {}
      [] r.t = "ncls" -> IF i <= Len(s) /\ ~InCls(SubSeq(s, i, i), r.c, ic) THEN {i + 1} ELSE {}
      [] r.t = "any"  -> IF i <= Len(s) /\ SubSeq(s, i, i) # "\n" THEN {i + 1} ELSE {}
      [] r.t = "cat"  -> CatEnds(r.rs, 1, s, {i}, ic)
      [] r.t = "alt"  -> UNION {Ends(r.rs[k], s, i, ic) : k \in 1..Len(r.rs)}
      [] r.t = "rep"  -> RepEnds(r.r, r.lo, r.hi, 0, s, {i}, ic)
      [] r.t = "wb"   -> IF IsWordAt(s, i - 1) # IsWordAt(s, i) THEN {i} ELSE {}
      [] r.t = "bol"  -> IF i = 1 THEN {i} ELSE {}
      [] r.t = "eol"  -> IF i = Len(s) + 1 \/ (i = Len(s) /\ SubSeq(s, i, i) = "\n") THEN {i} ELSE {}
      [] r.t = "ahead" -> IF Ends(r.r, s, i, ic) # {} THEN {i} ELSE {}

CatEnds(rs, k, s, P, ic) ==
    IF k > Len(rs) \/ P = {} THEN P
    ELSE CatEnds(rs, k + 1, s, UNION {Ends(rs[k], s, p, ic) : p \in P}, ic)

\* P: the positions reached after n repetitions
RepEnds(r, lo, hi, n, s, P, ic) ==
    LET here == IF n >= lo THEN P ELSE {} IN
    IF P = {} \/ (hi # Unbounded /\ n >= hi) THEN here
    ELSE here \cup RepEnds(r, lo, hi, n + 1, s, UNION {Ends(r, s, p, ic) : p \in P}, ic)

\* re.search(r, s) is not None
Search(r, s, ic) == \E i \in 1..(Len(s) + 1) : Ends(r, s, i, ic) # {}
\* re.match(r, s) is not None
Match(r, s, ic) == Ends(r, s, 1, ic) # {}

(***************************************************************************)
(* GuardrailValidator (api_server.py)                                      *)
(***************************************************************************)
CrisisReason == "I'm concerned about your safety. Please contact emergency services (911) or a crisis helpline if you're in immediate danger."
DosageReason == "I'm very concerned about this request. Taking large amounts of medication can be extremely dangerous. Please contact emergency services (911) or poison control (1-800-222-1222) immediately if you're considering this."
IllegalReason == "I can only provide information about legal medical treatments and services."
AdviceReason == "I cannot provide specific medical advice or diagnoses. Please consult with a healthcare professional for medical guidance."

\* One (pattern, event_type, severity) rule: src is the pattern's text, re its tree.
Rule(src, re, event_type, severity) == [src |-> src, re |-> re, event_type |-> event_type, severity |-> severity]

SelfHarmVerbRe ==
    Cat(<<WordB, Alt(<<Lit("kill"), Lit("suicide"), Lit("harm"), Lit("hurt")>>),
          Plus(Cls(SPACE)), Alt(<<Lit("myself"), Lit("me")>>), WordB>>)
SelfHarmWishRe ==
    Cat(<<WordB, Alt(<<Lit("want to die"), Lit("end my life")>>), WordB>>)
IllegalDrugsRe ==
    Cat(<<WordB, Alt(<<Lit("illegal drugs"), Lit("street drugs")>>), WordB>>)
PrescriptionFraudRe ==
    Cat(<<WordB, Alt(<<Lit("prescription fraud"), Lit("fake prescription")>>), WordB>>)
TakeAmountRe ==
    Cat(<<WordB, Alt(<<Lit("take"), Lit("ingest"), Lit("swallow")>>), Plus(Cls(SPACE)),
          Alt(<<Rep(Cls(DIGIT), 2, Unbounded),
                Cat(<<Plus(Cls(DIGIT)), Plus(Cls(SPACE)), Alt(<<Lit("pills"), Lit("tablets")>>)>>)>>),
          WordB>>)
ManyPillsRe ==
    Cat(<<WordB, Rep(Cls(DIGIT), 2, Unbounded), Plus(Cls(SPACE)),
          Alt(<<Lit("pills"), Lit("tablets"), Lit("capsules")>>), WordB>>)
WholeBottleRe ==
    Cat(<<WordB, Lit("whole bottle"), WordB, Star(AnyChar), WordB,
          Alt(<<Lit("pills"), Lit("medication")>>), WordB>>)

inappropriate_patterns_dosage_first ==
    << Rule("\\b(\\d{2,})\\s+(pills|tablets|capsules)\\b", ManyPillsRe, "dangerous_dosage", "critical"),
       Rule("\\b(kill|suicide|harm|hurt)\\s+(myself|me)\\b", SelfHarmVerbRe, "suicide_ideation", "critical"),
       Rule("\\b(want to die|end my life)\\b", SelfHarmWishRe, "suicide_ideation", "critical"),
       Rule("\\b(illegal drugs|street drugs)\\b", IllegalDrugsRe, "illegal_content", "high"),
       Rule("\\b(prescription fraud|fake prescription)\\b", PrescriptionFraudRe, "illegal_content", "high"),
       Rule("\\b(take|ingest|swallow)\\s+(\\d{2,}|\\d+\\s+(pills|tablets))\\b", TakeAmountRe, "dangerous_dosage", "critical"),
       Rule("\\bwhole bottle\\b.*\\b(pills|medication)\\b", WholeBottleRe, "dangerous_dosage", "critical") >>

inappropriate_patterns ==
    << Rule("\\b(kill|suicide|harm|hurt)\\s+(myself|me)\\b", SelfHarmVerbRe, "suicide_ideation", "critical"),
       Rule("\\b(want to die|end my life)\\b", SelfHarmWishRe, "suicide_ideation", "critical"),
       Rule("\\b(illegal drugs|street drugs)\\b", IllegalDrugsRe, "illegal_content", "high"),
       Rule("\\b(prescription fraud|fake prescription)\\b", PrescriptionFraudRe, "illegal_content", "high"),
       Rule("\\b(take|ingest|swallow)\\s+(\\d{2,}|\\d+\\s+(pills|tablets))\\b", TakeAmountRe, "dangerous_dosage", "critical"),
       Rule("\\b(\\d{2,})\\s+(pills|tablets|capsules)\\b", ManyPillsRe, "dangerous_dosage", "critical"),
       Rule("\\bwhole bottle\\b.*\\b(pills|medication)\\b", WholeBottleRe, "dangerous_dosage", "critical") >>

medical_advice_patterns ==
    << Rule("\\bshould i take\\b.*\\b(medication|pills|drugs)\\b",
            Cat(<<WordB, Lit("should i take"), WordB, Star(AnyChar), WordB,
                  Alt(<<Lit("medication"), Lit("pills"), Lit("drugs")>>), WordB>>),
            "medical_advice_request", "high"),
       Rule("\\bwhat medication\\b", Cat(<<WordB, Lit("what medication"), WordB>>),
            "medical_advice_request", "high"),
       Rule("\\bhow much\\b.*\\b(dosage|dose)\\b",
            Cat(<<WordB, Lit("how much"), WordB, Star(AnyChar), WordB,
                  Alt(<<Lit("dosage"), Lit("dose")>>), WordB>>),
            "dosage_request", "high"),
       Rule("\\bdiagnose me\\b", Cat(<<WordB, Lit("diagnose me"), WordB>>), "diagnosis_request", "high"),
       Rule("\\bis it cancer\\b", Cat(<<WordB, Lit("is it cancer"), WordB>>), "diagnosis_request", "high") >>

\* What a validation returns (allowed, reason), with the arguments of the
\* one log_guardrail_event call on its return path (event_type, severity,
\* blocked).
Verdict(allowed, reason, event_type, severity, blocked) ==
    [allowed |-> allowed, reason |-> reason, event_type |-> event_type, severity |-> severity,
     blocked |-> blocked]

\* The body of the first loop for a rule that matched (api_server.py 167-178).
InappropriateVerdict(rule) ==
    IF Contains(rule.src, "suicide") \/ Contains(rule.src, "kill") \/ Contains(rule.src, "die")
    THEN Verdict(FALSE, CrisisReason, rule.event_type, rule.severity, TRUE)
    ELSE IF Contains(rule.event_type, "dosage") \/ Contains(rule.src, "pills") \/ Contains(rule.src, "bottle")
    THEN Verdict(FALSE, DosageReason, rule.event_type, rule.severity, TRUE)
    ELSE Verdict(FALSE, IllegalReason, rule.event_type, rule.severity, TRUE)

\* The index of the first rule of rules that matches text, 0 when none does.
FirstMatching(rules, text) ==
    LET hits == {k \in 1..Len(rules) : Search(rules[k].re, text, FALSE)} IN
    IF hits = {} THEN 0 ELSE CHOOSE k \in hits : \A j \in hits : k <= j

\* The second loop run before the first.
validate_user_input_advice_first(text) ==
    LET user_input_lower == lower(text)
        k == FirstMatching(inappropriate_patterns, user_input_lower)
        m == FirstMatching(medical_advice_patterns, user_input_lower)
    IN  IF m # 0 THEN Verdict(FALSE, AdviceReason, medical_advice_patterns[m].event_type, "high", TRUE)
        ELSE IF k # 0 THEN InappropriateVerdict(inappropriate_patterns[k])
        ELSE Verdict(TRUE, "None", "input_validation", "info", FALSE)

validate_user_input(text) ==
    LET user_input_lower == lower(text)
        k == FirstMatching(inappropriate_patterns, user_input_lower)
        m == FirstMatching(medical_advice_patterns, user_input_lower)
    IN  IF k # 0 THEN InappropriateVerdict(inappropriate_patterns[k])
        ELSE IF m # 0 THEN Verdict(FALSE, AdviceReason, medical_advice_patterns[m].event_type, "high", TRUE)
        ELSE Verdict(TRUE, "None", "input_validation", "info", FALSE)


(***************************************************************************)
(* SpecGuard: validate_user_input applied to one text                      *)
(***************************************************************************)
GuardPrefixes ==
    {"", "I ", "Please help, I ", "s", "i took 50 pills and ", "they sell illegal drugs so i "}
GuardCores ==
    {"want to kill myself", "KILL ME", "hurt\n me", "want to die", "will end my life",
     "harm them", "killme", "want  to die", "have a headache", "suicide\t myself"}
GuardSuffixes ==
    {"", ".", "lon", " should i take pills", " or swallow 3 tablets", "!"}

GuardTexts == {p \o c \o x : p \in GuardPrefixes, c \in GuardCores, x \in GuardSuffixes}

InitGuard ==
    /\ user_input \in GuardTexts
    /\ input_result = <<>>
    /\ ai_response = ""
    /\ ai_result = <<>>
    /\ CleanIdle
    /\ DiscIdle
    /\ ChatIdle
    /\ FindIdle
    /\ PipeIdle
    /\ OverlapIdle
    /\ HandoffIdle

\* GuardrailValidator.validate_user_input(user_input)
ValidateInput ==
    /\ input_result = <<>>
    /\ input_result' = <<validate_user_input(user_input)>>
    /\ UNCHANGED <<user_input, ai_response, ai_result, cleanVars, discVars, chatVars, findVars, pipeVars, overlapVars, handoffVars>>

NextGuard == ValidateInput

SpecGuard == InitGuard /\ [][NextGuard]_vars

\* The text, as the validator reads it, holds a match of a self-harm pattern.
ContainsSelfHarm(text) ==
    \/ Search(SelfHarmVerbRe, lower(text), FALSE)
    \/ Search(SelfHarmWishRe, lower(text), FALSE)

\* C1: every input that contains a match of a self-harm pattern is rejected
\* (allowed = false) with the crisis-resource message, whatever surrounds it.
C1_SelfHarmBlocked ==
    (input_result # <<>> /\ ContainsSelfHarm(user_input))
        => (~input_result[1].allowed /\ input_result[1].reason = CrisisReason)

\* C1 witness: a validated text with a self-harm match whose surroundings
\* match a dosage rule as well.
C1_Witness ==
    /\ input_result # <<>>
    /\ ContainsSelfHarm(user_input)
    /\ Search(ManyPillsRe, lower(user_input), FALSE)
    /\ input_result[1].reason = CrisisReason

(***************************************************************************)
(* ClinicProcessor.clean_appointment_slots (process_clinics_parallel.py)   *)
(***************************************************************************)
\* The ASCII characters a text of the model may hold, in code-point order,
\* for Python's comparison of str.
CodeOrder ==
    "\t\n\r !\"#$%&'()*+,-./0123456789:;<=>?@ABCDEFGHIJKLMNOPQRSTUVWXYZ[\\]^_abcdefghijklmnopqrstuvwxyz{|}~"

Ord(c) == IndexIn(c, CodeOrder)

RECURSIVE StrLess(_, _)
\* a < b on Python str
StrLess(a, b) ==
    IF Len(b) = 0 THEN FALSE
    ELSE IF Len(a) = 0 THEN TRUE
    ELSE LET x == Ord(SubSeq(a, 1, 1))
             y == Ord(SubSeq(b, 1, 1))
         IN  IF x # y THEN x < y ELSE StrLess(SubSeq(a, 2, Len(a)), SubSeq(b, 2, Len(b)))

\* One appointment slot dict.  time_type is "str" unless the LLM's JSON gave
\* a number for the time; website_note is "None" where the key is absent.
Slot(time, time_type, source, context, website_note) ==
    [time |-> time, time_type |-> time_type, source |-> source,
     context |-> context, website_note |-> website_note]

Digits(lo, hi) == Rep(Cls(DIGIT), lo, hi)
Spaces0 == Star(Cls(SPACE))

invalid_patterns_two_digits ==
    << Cat(<<Digits(4, 4), Spaces0, Plus(Cls(WORD)), Spaces0, Plus(Cls(WORD))>>),
       Digits(2, 5),
       Rep(Cls(ALPHA), 4, Unbounded),
       Lit("\n"),
       Lit("Get Directions"),
       Cat(<<Lit("CA "), Digits(5, 5)>>),
       Alt(<<Lit("Ave"), Lit("Street"), Lit("St"), Lit("Blvd"), Lit("Road"), Lit("Dr")>>) >>

invalid_patterns ==
    << Cat(<<Digits(4, 4), Spaces0, Plus(Cls(WORD)), Spaces0, Plus(Cls(WORD))>>),
       Digits(3, 5),
       Rep(Cls(ALPHA), 4, Unbounded),
       Lit("\n"),
       Lit("Get Directions"),
       Cat(<<Lit("CA "), Digits(5, 5)>>),
       Alt(<<Lit("Ave"), Lit("Street"), Lit("St"), Lit("Blvd"), Lit("Road"), Lit("Dr")>>) >>

time_patterns ==
    << Cat(<<Bol, Digits(1, 2), Lit(":"), Digits(2, 2), Spaces0, Cls({"A", "P"}), Lit("M"), Eol>>),
       Cat(<<Bol, Digits(1, 2), Lit(":"), Digits(2, 2), Eol>>),
       Cat(<<Bol, Digits(1, 2), Spaces0, Cls({"A", "P"}), Lit("M"), Eol>>),
       Cat(<<Bol, Digits(1, 2), Lit(":"), Digits(2, 2), Spaces0, Cls({"a", "p"}), Lit("m"), Eol>>) >>

is_invalid(time_str) == \E k \in 1..Len(invalid_patterns) : Search(invalid_patterns[k], time_str, TRUE)
is_valid_time(time_str) == \E k \in 1..Len(time_patterns) : Match(time_patterns[k], time_str, TRUE)

\* The loop body's decision for one slot: TRUE when the slot is appended.
KeepsSlot(slot) ==
    LET time_str == strip(slot.time) IN
    /\ Len(time_str) >= 2
    /\ ~is_invalid(time_str)
    /\ is_valid_time(time_str)

RECURSIVE InsertByTime(_, _)
\* insert x after every element whose time is not greater (a stable sort step)
InsertByTime(sorted, x) ==
    IF sorted = <<>> THEN <<x>>
    ELSE IF StrLess(x.time, sorted[1].time) THEN <<x>> \o sorted
    ELSE <<sorted[1]>> \o InsertByTime(Tail(sorted), x)

RECURSIVE SortByTime(_)
\* list.sort(key=lambda x: x['time'])
SortByTime(seq) ==
    IF seq = <<>> THEN <<>>
    ELSE InsertByTime(SortByTime(SubSeq(seq, 1, Len(seq) - 1)), seq[Len(seq)])

MaxCleanedSlots == 8

RECURSIVE CleanLoop(_)
CleanLoop(seq) ==
    IF seq = <<>> THEN <<>>
    ELSE (IF KeepsSlot(seq[1]) THEN <<[seq[1] EXCEPT !.time = strip(seq[1].time)]>> ELSE <<>>)
         \o CleanLoop(Tail(seq))

\* The result of clean_appointment_slots: raised is TRUE when .strip() is
\* called on a time that is not a str (AttributeError), else list is the
\* cleaned, sorted and capped list.
clean_appointment_slots(seq) ==
    IF \E k \in 1..Len(seq) : seq[k].time_type # "str"
    THEN [raised |-> TRUE, list |-> <<>>]
    ELSE LET sorted == SortByTime(CleanLoop(seq)) IN
         [raised |-> FALSE,
          list |-> SubSeq(sorted, 1, IF Len(sorted) < MaxCleanedSlots THEN Len(sorted) ELSE MaxCleanedSlots)]

(***************************************************************************)
(* ClinicProcessor: the extraction chain of one clinic page                *)
(***************************************************************************)
RECURSIVE CollapseSpaces(_)
\* re.sub(r'\s+', ' ', s)
CollapseSpaces(s) ==
    IF Len(s) = 0 THEN ""
    ELSE IF SubSeq(s, 1, 1) \in SPACE
         THEN " " \o CollapseSpaces(lstrip(s))
         ELSE SubSeq(s, 1, 1) \o CollapseSpaces(SubSeq(s, 2, Len(s)))

RECURSIVE SpaceBeforeAmPm(_)
\* re.sub(r'([AP]M)', r' \1', s, flags=re.IGNORECASE)
SpaceBeforeAmPm(s) ==
    IF Len(s) = 0 THEN ""
    ELSE IF Len(s) >= 2 /\ lower(SubSeq(s, 1, 1)) \in {"a", "p"} /\ lower(SubSeq(s, 2, 2)) = "m"
         THEN " " \o SubSeq(s, 1, 2) \o SpaceBeforeAmPm(SubSeq(s, 3, Len(s)))
         ELSE SubSeq(s, 1, 1) \o SpaceBeforeAmPm(SubSeq(s, 2, Len(s)))

RECURSIVE LeadingDigits(_)
LeadingDigits(s) ==
    IF Len(s) > 0 /\ SubSeq(s, 1, 1) \in DIGIT
    THEN SubSeq(s, 1, 1) \o LeadingDigits(SubSeq(s, 2, Len(s))) ELSE ""

format_patterns ==
    << Cat(<<Bol, Digits(1, 2), Lit(":"), Digits(2, 2), Spaces0, Cls({"A", "P"}), Lit("M"), Eol>>),
       Cat(<<Bol, Digits(1, 2), Lit(":"), Digits(2, 2), Eol>>),
       Cat(<<Bol, Digits(1, 2), Spaces0, Cls({"A", "P"}), Lit("M"), Eol>>) >>

\* The formatting of a time that matched a pattern (lines 407-416).
FormatMatched(cleaned) ==
    LET hour_only == Match(format_patterns[3], cleaned, TRUE)
        with_minutes ==
            IF hour_only
            THEN LeadingDigits(cleaned) \o ":00 " \o SubSeq(cleaned, Len(cleaned) - 1, Len(cleaned))
            ELSE cleaned
    IN  strip(CollapseSpaces(SpaceBeforeAmPm(with_minutes)))

\* validate_and_format_time: "None" when the string is no time.
validate_and_format_time(time_str) ==
    LET cleaned == CollapseSpaces(strip(time_str)) IN
    IF Len(time_str) > 0 /\ \E k \in 1..Len(format_patterns) : Match(format_patterns[k], cleaned, TRUE)
    THEN FormatMatched(cleaned)
    ELSE "None"

RECURSIVE Split(_, _)
\* s.split(sep) for a one-character sep
Split(s, sep) ==
    IF \A i \in 1..Len(s) : SubSeq(s, i, i) # sep THEN <<s>>
    ELSE LET i == CHOOSE j \in 1..Len(s) :
                     SubSeq(s, j, j) = sep /\ \A h \in 1..(j - 1) : SubSeq(s, h, h) # sep
         IN  <<SubSeq(s, 1, i - 1)>> \o Split(SubSeq(s, i + 1, Len(s)), sep)

SetMax(S) == CHOOSE x \in S : \A y \in S : y <= x

\* The time patterns of the regex fallback: grp is group 1 (with the leading
\* \b), post is what follows the group.
fallback_time_patterns ==
    << [grp  |-> Cat(<<WordB, Digits(1, 2), Lit(":"), Digits(2, 2), Spaces0, Cls({"A", "P"}), Lit("M")>>),
        post |-> WordB],
       [grp  |-> Cat(<<WordB, Digits(1, 2), Lit(":"), Digits(2, 2)>>),
        post |-> Cat(<<Spaces0, LookAhead(NotCls(DIGIT))>>)],
       [grp  |-> Cat(<<WordB, Digits(1, 2), Spaces0, Cls({"A", "P"}), Lit("M")>>),
        post |-> WordB] >>

appointment_keywords ==
    <<"appointment", "book", "schedule", "available", "slot", "visit", "consultation", "meeting", "time">>

RECURSIVE FindIter(_, _, _)
\* [m.group(1) for m in re.finditer(pattern, line, re.IGNORECASE)], scanning
\* from position i; the quantifiers are greedy, so the longest group and the
\* longest tail are the match the backtracking finds first.
FindIter(pat, line, i) ==
    IF i > Len(line) + 1 THEN <<>>
    ELSE LET good == {g \in Ends(pat.grp, line, i, TRUE) : Ends(pat.post, line, g, TRUE) # {}} IN
         IF good = {} THEN FindIter(pat, line, i + 1)
         ELSE LET g == SetMax(good)
                  e == SetMax(Ends(pat.post, line, g, TRUE))
              IN  <<SubSeq(line, i, g - 1)>> \o FindIter(pat, line, IF e > i THEN e ELSE i + 1)

RECURSIVE FormattedSlots(_, _)
\* the slots appended for the matches of one pattern in one line
FormattedSlots(found, line) ==
    IF found = <<>> THEN <<>>
    ELSE LET formatted_time == validate_and_format_time(found[1]) IN
         (IF formatted_time # "None"
          THEN LET context == strip(line) IN
               <<Slot(formatted_time, "str", "regex_fallback",
                      SubSeq(context, 1, IF Len(context) < 100 THEN Len(context) ELSE 100), "None")>>
          ELSE <<>>)
         \o FormattedSlots(Tail(found), line)

LineSlots(line) ==
    IF \E k \in 1..Len(appointment_keywords) : Contains(lower(line), appointment_keywords[k])
    THEN FormattedSlots(FindIter(fallback_time_patterns[1], line, 1), line)
         \o FormattedSlots(FindIter(fallback_time_patterns[2], line, 1), line)
         \o FormattedSlots(FindIter(fallback_time_patterns[3], line, 1), line)
    ELSE <<>>

RECURSIVE AllLineSlots(_)
AllLineSlots(lines) ==
    IF lines = <<>> THEN <<>> ELSE LineSlots(lines[1]) \o AllLineSlots(Tail(lines))

RECURSIVE UniqueByTime(_, _)
UniqueByTime(seq, seen_times) ==
    IF seq = <<>> THEN <<>>
    ELSE IF seq[1].time \in seen_times THEN UniqueByTime(Tail(seq), seen_times)
         ELSE <<seq[1]>> \o UniqueByTime(Tail(seq), seen_times \cup {seq[1].time})

MaxFallbackSlots == 10

\* extract_appointment_slots_fallback(page); body is <<>> when reading the
\* page raises, else <<page_text>>.
extract_appointment_slots_fallback(body) ==
    IF body = <<>> THEN <<>>
    ELSE LET unique_slots == UniqueByTime(AllLineSlots(Split(body[1], "\n")), {}) IN
         SubSeq(unique_slots, 1,
                IF Len(unique_slots) < MaxFallbackSlots THEN Len(unique_slots) ELSE MaxFallbackSlots)

common_times ==
    <<"9:00 AM", "9:30 AM", "10:00 AM", "10:30 AM", "11:00 AM", "11:30 AM",
      "1:00 PM", "1:30 PM", "2:00 PM", "2:30 PM", "3:00 PM", "3:30 PM", "4:00 PM">>

MaxGeneratedSlots == 6

\* generate_realistic_appointment_slots(website_url); "" stands for no URL
generate_realistic_appointment_slots(website_url) ==
    [k \in 1..MaxGeneratedSlots |->
        Slot(common_times[k], "str", "generated_realistic",
             IF website_url # ""
             THEN "No appointment info found on page - please visit " \o website_url
                      \o " directly to schedule"
             ELSE "Generated based on typical medical practice hours",
             IF website_url # ""
             THEN "Visit " \o website_url \o " for actual appointment booking"
             ELSE "None")]

\* One element of the JSON array the LLM answered with.
LlmItem(is_dict, time, time_type, context) ==
    [is_dict |-> is_dict, time |-> time, time_type |-> time_type, context |-> context]

\* The parsed answer of the LLM: kind is "list" for a JSON array, "not_list"
\* for other JSON, "invalid_json" for text that does not parse, "raises"
\* when both calls to the model fail.
LlmResponse(kind, items) == [kind |-> kind, items |-> items]

\* analyze_appointments_with_gemini(webpage_text)
analyze_appointments_with_gemini(response) ==
    IF response.kind = "list" THEN response.items ELSE <<>>

\* extract_appointment_slots_with_llm(page)
extract_appointment_slots_with_llm(body, response) ==
    IF body = <<>> THEN <<>> ELSE analyze_appointments_with_gemini(response)

\* isinstance(slot, dict) and slot.get('time')
HasTime(item) ==
    /\ item.is_dict
    /\ \/ item.time_type = "str" /\ item.time # ""
       \/ item.time_type = "int" /\ item.time # "0"

RECURSIVE LlmCleaned(_)
\* the list built from the LLM's items (lines 263-275)
LlmCleaned(items) ==
    IF items = <<>> THEN <<>>
    ELSE (IF HasTime(items[1])
          THEN <<Slot(items[1].time, items[1].time_type, "llm_extraction", items[1].context, "None")>>
          ELSE <<>>)
         \o LlmCleaned(Tail(items))

\* extract_appointment_slots without the stage that answers when the LLM
\* gave items: the regex fallback and the synthetic schedule only.
ExtractAfterLlm(page) ==
    LET fallback_slots == extract_appointment_slots_fallback(page.body) IN
    IF fallback_slots = <<>>
    THEN [slots |-> generate_realistic_appointment_slots(page.url),
          stages |-> <<"llm", "regex_fallback", "generated_realistic">>]
    ELSE [slots |-> fallback_slots, stages |-> <<"llm", "regex_fallback">>]

\* The chain entered on what is left of the LLM's items after the entries
\* without a time are dropped, instead of on the items themselves.
extract_appointment_slots_on_usable(page) ==
    LET llm_slots == extract_appointment_slots_with_llm(page.body, page.llm) IN
    IF LlmCleaned(llm_slots) # <<>>
    THEN [slots |-> LlmCleaned(llm_slots), stages |-> <<"llm">>]
    ELSE ExtractAfterLlm(page)

\* extract_appointment_slots(page): the slots and the stages that ran.
\* Every exception of a stage is caught inside the stage.
extract_appointment_slots(page) ==
    LET llm_slots == extract_appointment_slots_with_llm(page.body, page.llm) IN
    IF Len(llm_slots) > 0
    THEN [slots |-> LlmCleaned(llm_slots), stages |-> <<"llm">>]
    ELSE ExtractAfterLlm(page)

(***************************************************************************)
(* SpecClean: clean_appointment_slots applied to one slot list             *)
(***************************************************************************)
LlmSlot(time) == Slot(time, "str", "llm_extraction", "", "None")

SampleSlots ==
    { LlmSlot("1001 Potrero Ave"), LlmSlot("94110"), LlmSlot("9:00 AM"), LlmSlot("14:30"),
      LlmSlot("2 PM"), LlmSlot(" 2:30 pm "), LlmSlot("9:00 AM - 5:00 PM"),
      Slot("900", "int", "llm_extraction", "", "None") }

MaxBase == 2
MaxPad == 8

\* k further slots with the canonical times 1:30, 2:30, ...
RECURSIVE PadSlots(_)
PadSlots(k) == IF k = 0 THEN <<>> ELSE PadSlots(k - 1) \o <<LlmSlot(ToString(k) \o ":30")>>

BaseLists == UNION {[1..n -> SampleSlots] : n \in 0..MaxBase}

InitClean ==
    /\ \E base \in BaseLists, pad \in 0..MaxPad : slots = base \o PadSlots(pad)
    /\ cleaned_slots = <<>>
    /\ GuardIdle
    /\ DiscIdle
    /\ ChatIdle
    /\ FindIdle
    /\ PipeIdle
    /\ OverlapIdle
    /\ HandoffIdle

\* cleaned_slots = cls.clean_appointment_slots(slots)
CleanSlots ==
    /\ cleaned_slots = <<>>
    /\ cleaned_slots' = <<clean_appointment_slots(slots)>>
    /\ UNCHANGED <<slots, guardVars, discVars, chatVars, findVars, pipeVars, overlapVars, handoffVars>>

NextClean == CleanSlots

SpecClean == InitClean /\ [][NextClean]_vars

\* The claim's time forms H:MM AM/PM, HH:MM and H AM/PM.
CanonicalForms ==
    << Cat(<<Bol, Digits(1, 2), Lit(":"), Digits(2, 2), Lit(" "), Cls({"A", "P"}), Lit("M"), Eol>>),
       Cat(<<Bol, Digits(1, 2), Lit(":"), Digits(2, 2), Eol>>),
       Cat(<<Bol, Digits(1, 2), Lit(" "), Cls({"A", "P"}), Lit("M"), Eol>>) >>
IsCanonicalTime(t) == \E k \in 1..Len(CanonicalForms) : Match(CanonicalForms[k], t, FALSE)

\* A street address (a house number, name words, a street suffix) or a bare
\* 3-5 digit number.
IsAddressOrZipLike(t) ==
    \/ Match(Cat(<<Bol, Plus(Cls(DIGIT)), Plus(Cat(<<Plus(Cls(SPACE)), Plus(Cls(ALPHA))>>)),
                   Plus(Cls(SPACE)),
                   Alt(<<Lit("Ave"), Lit("Street"), Lit("St"), Lit("Blvd"), Lit("Road"), Lit("Dr")>>),
                   Eol>>), t, FALSE)
    \/ Match(Cat(<<Bol, Digits(3, 5), Eol>>), t, FALSE)

CountTime(seq, t) == Cardinality({i \in DOMAIN seq : seq[i].time = t})

CleanReturned == cleaned_slots # <<>> /\ ~cleaned_slots[1].raised

MAX_CONCURRENT_TASKS == 3

\* What a clinic's site does when it is visited: goto is "ok" or the message
\* of the exception page.goto raises, body is <<>> when reading the page
\* raises and <<page_text>> otherwise, llm is the LLM's parsed answer.
Page(url, goto, body, llm) == [url |-> url, goto |-> goto, body |-> body, llm |-> llm]

ClinicNames == {"NoWebsite", "Timeout", "LlmTimes", "LlmIntTime", "BodyRaises", "RegexOnly"}

\* clinic_data.get('website')
Website(name) == IF name = "NoWebsite" THEN "" ELSE "https://" \o name \o ".example"

GotoTimeout == "Timeout 30000ms exceeded."
StripOnInt == "'int' object has no attribute 'strip'"

Web(name) ==
    CASE name = "Timeout" ->
            Page(Website(name), GotoTimeout, <<"">>, LlmResponse("list", <<>>))
      [] name = "LlmTimes" ->
            Page(Website(name), "ok", <<"Our hours">>,
                 LlmResponse("list", << LlmItem(TRUE, "2 PM", "str", "afternoon"),
                                        LlmItem(TRUE, "9:00 AM", "str", "morning"),
                                        LlmItem(TRUE, "1001 Potrero Ave", "str", "address"),
                                        LlmItem(FALSE, "10 AM", "str", ""),
                                        LlmItem(TRUE, "", "missing", "no time") >>))
      [] name = "LlmIntTime" ->
            Page(Website(name), "ok", <<"Open at 900">>,
                 LlmResponse("list", <<LlmItem(TRUE, "900", "int", "")>>))
      [] name = "BodyRaises" ->
            Page(Website(name), "ok", <<>>, LlmResponse("raises", <<>>))
      [] name = "RegexOnly" ->
            Page(Website(name), "ok", <<"Appointments available: 9:00 AM, 2 PM\nWalk-ins welcome">>,
                 LlmResponse("invalid_json", <<>>))
      [] OTHER ->
            Page(Website(name), "ok", <<"">>, LlmResponse("list", <<>>))

\* The dict process_clinic returns; status / error are "None" and
\* appointment_slots is <<>> when the key is absent.
Result(name, status, error, appointment_slots) ==
    [name |-> name, website |-> Website(name), status |-> status, error |-> error,
     appointment_slots |-> appointment_slots]

NoWebsiteResult(name) == Result(name, "None", "No website URL provided", <<>>)
ErrorResult(name, message) == Result(name, "error", message, <<>>)
SlotsResult(name, cleaned) ==
    Result(name, IF cleaned # <<>> THEN "success" ELSE "no_slots_found", "None", <<cleaned>>)

\* For each clinic, what extraction followed by cleaning gives on its site
\* (the site answers the same way at every visit).
Scraped ==
    [name \in ClinicNames |-> clean_appointment_slots(extract_appointment_slots(Web(name)).slots)]

\* The summary slot with the default source in place of the slot's own.
SummarySlot_default_source(slot) ==
    [time |-> slot.time, source |-> "website",
     note |-> IF slot.website_note # "None" THEN slot.context ELSE "None"]

\* The dict clean_appointment_data makes of one slot; note is "None" where
\* the key is absent.
SummarySlot(slot) ==
    [time |-> slot.time, source |-> slot.source,
     note |-> IF slot.website_note # "None" THEN slot.context ELSE "None"]

BookingNote(website) ==
    "Please visit " \o website \o " directly to check availability and book appointments. "
        \o "Online booking system may be restricted."

\* the body of the loop of clean_appointment_data(processed_clinics)
clean_appointment_data(clinic) ==
    LET listed == IF clinic.appointment_slots = <<>> THEN <<>> ELSE clinic.appointment_slots[1]
        cleaned == [i \in DOMAIN listed |-> SummarySlot(listed[i])]
        has_website_reference == \E i \in DOMAIN listed : listed[i].website_note # "None"
    IN  [hospital_name |-> clinic.name,
         website |-> clinic.website,
         processing_status |-> IF clinic.status = "None" THEN "unknown" ELSE clinic.status,
         available_slots |-> cleaned,
         total_slots_found |-> Len(cleaned),
         next_available |-> IF cleaned # <<>> THEN cleaned[1].time ELSE "None",
         booking_method |-> IF cleaned = <<>> THEN "unknown"
                            ELSE IF has_website_reference THEN "visit_website" ELSE "online",
         booking_note |-> IF cleaned # <<>> /\ has_website_reference
                          THEN BookingNote(clinic.website) ELSE "None",
         processing_error |-> clinic.error]

Task(pc, cleaned, result) == [pc |-> pc, cleaned |-> cleaned, result |-> result]

MaxClinics == 4

ClinicLists == UNION {[1..n -> ClinicNames] : n \in 0..MaxClinics}

InitDiscover ==
    /\ clinics \in ClinicLists
    /\ results = <<>>
    /\ disc_pc = "launch"
    /\ batch_start = 0
    /\ tasks = <<>>
    /\ browser = "None"
    /\ contexts = {}
    /\ output_file = <<>>
    /\ GuardIdle
    /\ CleanIdle
    /\ ChatIdle
    /\ FindIdle
    /\ PipeIdle
    /\ OverlapIdle
    /\ HandoffIdle

\* browser = await playwright.chromium.launch(headless=True)
Launch ==
    /\ disc_pc = "launch"
    /\ browser' = "open"
    /\ disc_pc' = "loop"
    /\ UNCHANGED <<clinics, results, batch_start, tasks, contexts, output_file, guardVars, cleanVars, chatVars, findVars, pipeVars, overlapVars, handoffVars>>

\* Every clinic that is left, as one batch.
BatchIndices_all_left(i) == {k \in 1..Len(clinics) : k > i}

\* the indices (from 1) of clinics[i:i + max_concurrent]
BatchIndices(i) ==
    {k \in 1..Len(clinics) : k > i /\ k <= i + MAX_CONCURRENT_TASKS}

\* asyncio.gather(*[process_clinic(clinic) for clinic in batch]) is entered
StartBatch ==
    /\ disc_pc = "loop"
    /\ batch_start < Len(clinics)
    /\ tasks' = [k \in BatchIndices(batch_start) |-> Task("start", <<>>, <<>>)]
    /\ disc_pc' = "gather"
    /\ UNCHANGED <<clinics, results, batch_start, browser, contexts, output_file, guardVars, cleanVars, chatVars, findVars, pipeVars, overlapVars, handoffVars>>

Running(k) == disc_pc = "gather" /\ k \in DOMAIN tasks

\* process_clinic up to its first await: the URL test and browser.new_context()
TaskBegin(k) ==
    /\ Running(k)
    /\ tasks[k].pc = "start"
    /\ IF Website(clinics[k]) = ""
       THEN /\ tasks' = [tasks EXCEPT ![k] = Task("done", <<>>, <<NoWebsiteResult(clinics[k])>>)]
            /\ UNCHANGED contexts
       ELSE IF browser # "open"
       THEN /\ tasks' = [tasks EXCEPT ![k] =
                            Task("done", <<>>, <<ErrorResult(clinics[k], "Browser has been closed")>>)]
            /\ UNCHANGED contexts
       ELSE /\ tasks' = [tasks EXCEPT ![k].pc = "goto"]
            /\ contexts' = contexts \cup {k}
    /\ UNCHANGED <<clinics, results, disc_pc, batch_start, browser, output_file, guardVars, cleanVars, chatVars, findVars, pipeVars, overlapVars, handoffVars>>

\* page.goto(url) and try_navigate_to_appointments(page), which never raises
TaskGoto(k) ==
    /\ Running(k)
    /\ tasks[k].pc = "goto"
    /\ LET page == Web(clinics[k]) IN
       tasks' = [tasks EXCEPT ![k] =
                    IF page.goto # "ok"
                    THEN Task("done", <<>>, <<ErrorResult(clinics[k], page.goto)>>)
                    ELSE Task("extract", <<>>, <<>>)]
    /\ UNCHANGED <<clinics, results, disc_pc, batch_start, browser, contexts, output_file, guardVars, cleanVars, chatVars, findVars, pipeVars, overlapVars, handoffVars>>

\* slots = await cls.extract_appointment_slots(page);
\* cleaned_slots = cls.clean_appointment_slots(slots)
TaskExtract(k) ==
    /\ Running(k)
    /\ tasks[k].pc = "extract"
    /\ LET cleaned == Scraped[clinics[k]]
       IN  tasks' = [tasks EXCEPT ![k] =
                        IF cleaned.raised
                        THEN Task("done", <<>>, <<ErrorResult(clinics[k], StripOnInt)>>)
                        ELSE Task("close", cleaned.list, <<>>)]
    /\ UNCHANGED <<clinics, results, disc_pc, batch_start, browser, contexts, output_file, guardVars, cleanVars, chatVars, findVars, pipeVars, overlapVars, handoffVars>>

\* page.close(); context.close(); return result
TaskClose(k) ==
    /\ Running(k)
    /\ tasks[k].pc = "close"
    /\ contexts' = contexts \ {k}
    /\ tasks' = [tasks EXCEPT ![k] = Task("done", <<>>, <<SlotsResult(clinics[k], tasks[k].cleaned)>>)]
    /\ UNCHANGED <<clinics, results, disc_pc, batch_start, browser, output_file, guardVars, cleanVars, chatVars, findVars, pipeVars, overlapVars, handoffVars>>

RECURSIVE GatherResults_skip_errors(_, _)
\* a gather that leaves the failed clinics out
GatherResults_skip_errors(ts, k) ==
    IF k \notin DOMAIN ts THEN <<>>
    ELSE (IF ts[k].result[1].status = "error" THEN <<>> ELSE ts[k].result)
         \o GatherResults_skip_errors(ts, k + 1)

RECURSIVE GatherResults(_, _)
\* batch_results in the order of the batch, appended to results from index k
GatherResults(ts, k) ==
    IF k \notin DOMAIN ts THEN <<>>
    ELSE ts[k].result \o GatherResults(ts, k + 1)

\* asyncio.gather returns; the results of the batch are appended
GatherDone ==
    /\ disc_pc = "gather"
    /\ \A k \in DOMAIN tasks : tasks[k].pc = "done"
    /\ results' = results \o GatherResults(tasks, batch_start + 1)
    /\ tasks' = <<>>
    /\ disc_pc' = IF batch_start + MAX_CONCURRENT_TASKS < Len(clinics) THEN "sleep" ELSE "loop"
    /\ batch_start' = IF batch_start + MAX_CONCURRENT_TASKS < Len(clinics)
                      THEN batch_start ELSE batch_start + MAX_CONCURRENT_TASKS
    /\ UNCHANGED <<clinics, browser, contexts, output_file, guardVars, cleanVars, chatVars, findVars, pipeVars, overlapVars, handoffVars>>

\* await asyncio.sleep(2), then the next i
Sleep ==
    /\ disc_pc = "sleep"
    /\ batch_start' = batch_start + MAX_CONCURRENT_TASKS
    /\ disc_pc' = "loop"
    /\ UNCHANGED <<clinics, results, tasks, browser, contexts, output_file, guardVars, cleanVars, chatVars, findVars, pipeVars, overlapVars, handoffVars>>

\* return results, through finally: browser.close(); playwright.stop()
Return ==
    /\ disc_pc = "loop"
    /\ batch_start >= Len(clinics)
    /\ browser' = "closed"
    /\ disc_pc' = "returned"
    /\ UNCHANGED <<clinics, results, batch_start, tasks, contexts, output_file, guardVars, cleanVars, chatVars, findVars, pipeVars, overlapVars, handoffVars>>

\* The finally block alone: what an exception that propagates leaves behind.
Interrupt_without_finally ==
    /\ disc_pc \in {"gather", "sleep"}
    /\ disc_pc' = "raised"
    /\ tasks' = <<>>
    /\ UNCHANGED <<clinics, results, batch_start, browser, contexts, output_file,
                   guardVars, cleanVars, chatVars, findVars, pipeVars, overlapVars, handoffVars>>

\* An exception (the task is cancelled, the process is interrupted) is
\* raised at "await asyncio.gather(...)" or "await asyncio.sleep(2)": the
\* finally block closes the browser and the exception leaves the function.
Interrupt ==
    /\ disc_pc \in {"gather", "sleep"}
    /\ browser' = "closed"
    /\ disc_pc' = "raised"
    /\ tasks' = <<>>
    /\ UNCHANGED <<clinics, results, batch_start, contexts, output_file,
                   guardVars, cleanVars, chatVars, findVars, pipeVars, overlapVars, handoffVars>>

\* main(): cleaned_clinics = clean_appointment_data(processed_clinics);
\* save_results(cleaned_clinics)
SaveResults ==
    /\ disc_pc = "returned"
    /\ output_file' = <<[k \in DOMAIN results |-> clean_appointment_data(results[k])]>>
    /\ disc_pc' = "saved"
    /\ UNCHANGED <<clinics, results, batch_start, tasks, browser, contexts,
                   guardVars, cleanVars, chatVars, findVars, pipeVars, overlapVars, handoffVars>>

NextDiscover ==
    \/ Launch
    \/ StartBatch
    \/ \E k \in 1..MaxClinics : TaskBegin(k)
    \/ \E k \in 1..MaxClinics : TaskGoto(k)
    \/ \E k \in 1..MaxClinics : TaskExtract(k)
    \/ \E k \in 1..MaxClinics : TaskClose(k)
    \/ GatherDone
    \/ Sleep
    \/ Return
    \/ Interrupt
    \/ SaveResults

SpecDiscover == InitDiscover /\ [][NextDiscover]_vars

\* process_clinic run on its own, start to end
process_clinic(name) ==
    LET page == Web(name)
        cleaned == Scraped[name]
    IN  IF Website(name) = "" THEN NoWebsiteResult(name)
        ELSE IF page.goto # "ok" THEN ErrorResult(name, page.goto)
        ELSE IF cleaned.raised THEN ErrorResult(name, StripOnInt)
        ELSE SlotsResult(name, cleaned.list)

DiscoverReturned == disc_pc = "returned"

\* The clinic's visit raises while its page is opened or its slots are cleaned.
RaisesOutsideExtraction(name) ==
    /\ Website(name) # ""
    /\ \/ Web(name).goto # "ok"
       \/ Scraped[name].raised

\* An exception is raised inside the slot extraction of the clinic.
RaisesInExtraction(name) ==
    /\ Website(name) # ""
    /\ Web(name).goto = "ok"
    /\ Web(name).body = <<>> \/ Web(name).llm.kind = "raises"

HourOnly == Cat(<<Bol, Digits(1, 2), Spaces0, Cls({"A", "P"}), Lit("M"), Eol>>)

\* C9: no slot of a finished result carries an hour-only time such as
\* "2 PM"; it has been rewritten to "2:00 PM", whichever stage produced it.
C9_HourOnlyNormalized ==
    \A k \in DOMAIN results :
        results[k].appointment_slots # <<>>
            => \A j \in DOMAIN results[k].appointment_slots[1] :
                  ~Match(HourOnly, results[k].appointment_slots[1][j].time, TRUE)

(***************************************************************************)
(* GuardrailValidator.validate_ai_response                                 *)
(***************************************************************************)
ResponseAdviceReason ==
    "Response contains potential medical advice that requires professional consultation."
MissingDisclaimerReason ==
    "Medical advice should include appropriate disclaimers about consulting healthcare professionals."

Words(str) == Cat(<<WordB, Lit(str), WordB>>)

problematic_phrases ==
    << Rule("you have", Cat(<<WordB, Lit("you have"), WordB, Star(AnyChar), WordB,
                              Alt(<<Lit("cancer"), Lit("diabetes"), Lit("heart disease")>>), WordB>>),
            "diagnosis_given", "high"),
       Rule("you are diagnosed with", Words("you are diagnosed with"), "diagnosis_given", "high"),
       Rule("take this medication", Words("take this medication"), "medication_advice", "high"),
       Rule("stop taking your medication", Words("stop taking your medication"), "medication_advice", "high"),
       Rule("you don't need a doctor", Words("you don't need a doctor"), "medical_dismissal", "high"),
       Rule("this will cure", Words("this will cure"), "cure_claims", "high"),
       Rule("guaranteed to work", Words("guaranteed to work"), "guarantee_claims", "high") >>

advice_phrases ==
    <<"you should take", "i recommend", "my advice is", "you need to", "definitely do this">>

disclaimer_terms ==
    <<"consult", "healthcare provider", "medical professional", "doctor", "emergency">>

ContainsAny(text, needles) == \E k \in 1..Len(needles) : Contains(text, needles[k])

\* The disclaimer looked for first: a text with a disclaimer term is allowed.
validate_ai_response_disclaimer_first(response) ==
    LET response_lower == lower(response)
        k == FirstMatching(problematic_phrases, response_lower)
    IN  IF ContainsAny(response_lower, disclaimer_terms)
        THEN Verdict(TRUE, "None", "ai_response_validation", "info", FALSE)
        ELSE IF k # 0
        THEN Verdict(FALSE, ResponseAdviceReason, "ai_response_" \o problematic_phrases[k].event_type, "high", TRUE)
        ELSE IF ContainsAny(response_lower, advice_phrases)
        THEN Verdict(FALSE, MissingDisclaimerReason, "ai_response_missing_disclaimer", "medium", TRUE)
        ELSE Verdict(TRUE, "None", "ai_response_validation", "info", FALSE)

validate_ai_response(response) ==
    LET response_lower == lower(response)
        k == FirstMatching(problematic_phrases, response_lower)
    IN  IF k # 0
        THEN Verdict(FALSE, ResponseAdviceReason, "ai_response_" \o problematic_phrases[k].event_type, "high", TRUE)
        ELSE IF ContainsAny(response_lower, advice_phrases)
                /\ ~ContainsAny(response_lower, disclaimer_terms)
        THEN Verdict(FALSE, MissingDisclaimerReason, "ai_response_missing_disclaimer", "medium", TRUE)
        ELSE Verdict(TRUE, "None", "ai_response_validation", "info", FALSE)

(***************************************************************************)
(* PatientData and the field extraction of PatientHeroCrewAI               *)
(*                                                                         *)
(* An Optional value is <<>> for None and <<v>> otherwise.                 *)
(***************************************************************************)
PatientData(session_id) ==
    [session_id |-> session_id,
     medical_condition |-> <<>>, zip_code |-> <<>>, phone_number |-> <<>>, insurance |-> <<>>,
     symptoms |-> <<>>, reasoning_analysis |-> <<>>, conversation_history |-> <<>>]

\* bool(v) of an Optional[str]
Truthy(v) == v # <<>> /\ v[1] # ""

is_basic_info_complete(pd) ==
    /\ Truthy(pd.medical_condition)
    /\ Truthy(pd.zip_code)
    /\ Truthy(pd.phone_number)
    /\ Truthy(pd.insurance)

Message(speaker, message) == [speaker |-> speaker, message |-> message]

\* The entry put in front of the history instead of at its end.
Say_in_front(pd, speaker, message) ==
    [pd EXCEPT !.conversation_history = <<Message(speaker, message)>> \o @]

Say(pd, speaker, message) ==
    [pd EXCEPT !.conversation_history = Append(@, Message(speaker, message))]

\* m.group() of re.search(r, s), <<>> when there is no match: the leftmost
\* start, and from it the longest end (every quantifier used is greedy).
SearchGroup(r, s) ==
    LET starts == {i \in 1..(Len(s) + 1) : Ends(r, s, i, FALSE) # {}} IN
    IF starts = {} THEN <<>>
    ELSE LET i == CHOOSE x \in starts : \A y \in starts : x <= y
         IN  <<SubSeq(s, i, SetMax(Ends(r, s, i, FALSE)) - 1)>>

medical_keywords ==
    <<"pain", "ache", "hurt", "sick", "condition", "problem", "headache", "fever", "nausea",
      "dizzy", "cough", "cold", "flu", "infection", "injury", "broken", "sprain", "cut",
      "burn", "rash", "allergy">>

insurance_keywords ==
    <<"insurance", "aetna", "blue cross", "bluecross", "medicare", "medicaid", "cigna",
      "humana", "anthem", "kaiser", "bcbs", "united healthcare", "unitedhealthcare">>

ZipRe == Cat(<<WordB, Digits(5, 5), WordB>>)

DashOrDot == Opt(Cls({"-", "."}))

phone_patterns ==
    << Cat(<<WordB, Digits(3, 3), DashOrDot, Digits(3, 3), DashOrDot, Digits(4, 4), WordB>>),
       Cat(<<Lit("("), Digits(3, 3), Lit(")"), Spaces0, Digits(3, 3), DashOrDot, Digits(4, 4)>>),
       Cat(<<WordB, Digits(10, 10), WordB>>) >>

\* the first phone pattern that matches gives the number
PhoneMatch(text) ==
    LET hits == {k \in 1..Len(phone_patterns) : SearchGroup(phone_patterns[k], text) # <<>>} IN
    IF hits = {} THEN <<>>
    ELSE SearchGroup(phone_patterns[CHOOSE k \in hits : \A j \in hits : k <= j], text)

\* What _simple_data_extraction finds in a text, whatever the record holds.
SimpleFound(text) ==
    [medical_condition |-> IF ContainsAny(lower(text), medical_keywords)
                           THEN <<strip(text)>> ELSE <<>>,
     zip_code          |-> SearchGroup(ZipRe, text),
     phone_number      |-> PhoneMatch(text),
     insurance         |-> IF ContainsAny(lower(text), insurance_keywords)
                           THEN <<strip(text)>> ELSE <<>>]

\* The guarded assignment with "is not None" in place of truthiness.
SetIfUnset_nonnull(current, found) == IF found # <<>> /\ current = <<>> THEN found ELSE current

\* A field written whether or not it is set.
SetIfUnset_overwrite(current, found) == IF Truthy(found) THEN found ELSE current

\* "if found and not self.patient_data.field: field = found"
SetIfUnset(current, found) == IF Truthy(found) /\ ~Truthy(current) THEN found ELSE current

\* The four guarded assignments, from the values in found.
UpdateFields(pd, found) ==
    [pd EXCEPT !.medical_condition = SetIfUnset(@, found.medical_condition),
               !.zip_code          = SetIfUnset(@, found.zip_code),
               !.phone_number      = SetIfUnset(@, found.phone_number),
               !.insurance         = SetIfUnset(@, found.insurance)]

RECURSIVE AddSymptoms(_, _)
\* "for symptom in additional_symptoms: if symptom not in symptoms: append"
AddSymptoms(symptoms, additional) ==
    IF additional = <<>> THEN symptoms
    ELSE AddSymptoms(IF \E i \in DOMAIN symptoms : symptoms[i] = additional[1]
                     THEN symptoms ELSE Append(symptoms, additional[1]),
                     Tail(additional))

RECURSIVE JoinComma(_)
\* ', '.join(seq)
JoinComma(seq) ==
    IF seq = <<>> THEN ""
    ELSE IF Len(seq) = 1 THEN seq[1]
    ELSE seq[1] \o ", " \o JoinComma(Tail(seq))

MaxEarlyHistory == 3

\* The synthesis of medical_condition without the test on the history.
HandleSymptoms_any_time(pd, additional_symptoms) ==
    LET with_symptoms ==
            IF additional_symptoms # <<>>
            THEN [pd EXCEPT !.symptoms =
                     <<AddSymptoms(IF pd.symptoms = <<>> THEN <<>> ELSE pd.symptoms[1],
                                   additional_symptoms)>>]
            ELSE pd
    IN  IF /\ ~Truthy(with_symptoms.medical_condition)
           /\ with_symptoms.symptoms # <<>> /\ with_symptoms.symptoms[1] # <<>>
        THEN [with_symptoms EXCEPT !.medical_condition =
                 <<"Patient reports: " \o JoinComma(with_symptoms.symptoms[1])>>]
        ELSE with_symptoms

\* the symptom handling and the synthesis of medical_condition (715-730)
HandleSymptoms(pd, additional_symptoms) ==
    LET with_symptoms ==
            IF additional_symptoms # <<>>
            THEN [pd EXCEPT !.symptoms =
                     <<AddSymptoms(IF pd.symptoms = <<>> THEN <<>> ELSE pd.symptoms[1],
                                   additional_symptoms)>>]
            ELSE pd
    IN  IF /\ ~Truthy(with_symptoms.medical_condition)
           /\ with_symptoms.symptoms # <<>> /\ with_symptoms.symptoms[1] # <<>>
           /\ Len(with_symptoms.conversation_history) <= MaxEarlyHistory
        THEN [with_symptoms EXCEPT !.medical_condition =
                 <<"Patient reports: " \o JoinComma(with_symptoms.symptoms[1])>>]
        ELSE with_symptoms

\* What the extraction agent answered: kind is "json" when the text holds an
\* object that parses (data is the object), "no_json" when it holds no
\* {...}, "bad_json" when json.loads raises, "raises" when kickoff raises.
ExtractionOutput(kind, data) == [kind |-> kind, data |-> data]

ExtractedData(found, medical_condition, zip_code, phone_number, insurance, additional_symptoms) ==
    [found |-> found, medical_condition |-> medical_condition, zip_code |-> zip_code,
     phone_number |-> phone_number, insurance |-> insurance,
     additional_symptoms |-> additional_symptoms]

\* _simple_data_extraction(text); found is SimpleFound(text)
simple_data_extraction(pd, found) == UpdateFields(pd, found)

\* _extract_and_update_patient_data(text); found is SimpleFound(text)
extract_and_update_patient_data(pd, found, out) ==
    IF out.kind \in {"bad_json", "raises"} THEN simple_data_extraction(pd, found)
    ELSE IF out.kind = "json" /\ out.data.found
    THEN HandleSymptoms(UpdateFields(pd, out.data), out.data.additional_symptoms)
    ELSE pd

(***************************************************************************)
(* PatientHeroCrewAI.process_user_input                                    *)
(*                                                                         *)
(* A World is what one call may change: the instance's patient_data, the   *)
(* JSON files, the hand-offs to ExaHelper, and calls, the roles and        *)
(* helpers invoked so far in the turn, in order.  A role's answer is <<>>  *)
(* when its kickoff raises and <<text>> otherwise.  helper is how the      *)
(* continuation behaves in this turn, and failed says that an exception    *)
(* of the continuation is propagating.                                     *)
(***************************************************************************)
World(pd, pfiles, xfile, conts, calls, helper) ==
    [pd |-> pd, patient_files |-> pfiles, extracted_file |-> xfile,
     continuations |-> conts, calls |-> calls, helper |-> helper, failed |-> FALSE]

\* What the continuation does when it is fired: ExaHelper and the
\* appointment processing both work, process_patient_from_main raises, or
\* the appointment processing raises.
HelperOutcomes == {"ok", "finder_raises", "discovery_raises"}

Outcome(raised, w, response) == [raised |-> raised, w |-> w, response |-> response]

Response(agent, response, patient_data, next_step, transition) ==
    [agent |-> agent, response |-> response, patient_data |-> patient_data,
     next_step |-> next_step, transition |-> transition]

Called(w, name) == [w EXCEPT !.calls = Append(@, name)]

RECURSIVE DigitsOf(_)
\* ''.join(filter(str.isdigit, s))
DigitsOf(str) ==
    IF Len(str) = 0 THEN ""
    ELSE (IF SubSeq(str, 1, 1) \in DIGIT THEN SubSeq(str, 1, 1) ELSE "")
         \o DigitsOf(SubSeq(str, 2, Len(str)))

PhoneSuffixLen == 4

\* the last four digits of a phone number, "0000" when it has fewer
PhoneSuffixOf(phone_number) ==
    IF Truthy(phone_number) /\ Len(DigitsOf(phone_number[1])) >= PhoneSuffixLen
    THEN LET phone_digits == DigitsOf(phone_number[1])
         IN  SubSeq(phone_digits, Len(phone_digits) - PhoneSuffixLen + 1, Len(phone_digits))
    ELSE "0000"

AppendTo(files, name, entry) ==
    IF name \in DOMAIN files
    THEN [files EXCEPT ![name] = Append(@, entry)]
    ELSE files @@ (name :> <<entry>>)

Utterances ==
    { "I want to kill myself",
      "My zip is 94110, call 415-555-1234, I have Aetna",
      "I have a fever, my zip is 10001" }

IntakeAnswers == { <<>>, <<"Thanks. What is your ZIP code?">>, <<"I recommend rest.">> }

ReasoningAnswers == { <<>>, <<"Please consult a doctor about this.">>, <<"You have diabetes.">> }

\* What GeminiLLM.call returns when the API call raises: a text, no exception.
GeminiErrorText == "Error: Unable to connect to Gemini API - timeout"

\* re.search(r'\{.*\}', str(result), re.DOTALL) finds something
HasJsonObject(result) ==
    \E i \in 1..Len(result) :
        /\ SubSeq(result, i, i) = "{"
        /\ \E j \in (i + 1)..Len(result) : SubSeq(result, j, j) = "}"

\* The output of an extraction whose result text holds no object that parses.
UnparsedOutput(result) ==
    ExtractionOutput(IF HasJsonObject(result) THEN "bad_json" ELSE "no_json", <<>>)

ExtractionOutputs ==
    { UnparsedOutput("{zip: 94110"),
      UnparsedOutput("{not json}"),
      UnparsedOutput("I found nothing new."),
      UnparsedOutput(GeminiErrorText),
      ExtractionOutput("raises", <<>>),
      ExtractionOutput("json", ExtractedData(FALSE, <<"flu">>, <<>>, <<>>, <<>>, <<>>)),
      ExtractionOutput("json", ExtractedData(TRUE, <<"migraine">>, <<"94110">>, <<"4155551234">>,
                                             <<"Aetna">>, <<"nausea">>)),
      ExtractionOutput("json", ExtractedData(TRUE, <<>>, <<"10001">>, <<"">>, <<"Cigna">>,
                                             <<"cough">>)) }

\* The phone numbers a record can hold (unset, what the regex finds in the
\* utterances, what the extraction outputs carry), and the file suffix of each.
PhoneNumbers == {<<>>, <<"">>, <<"415-555-1234">>, <<"4155551234">>}

phone_suffix == [phone_number \in PhoneNumbers |-> PhoneSuffixOf(phone_number)]

medical_data(pd) ==
    [medical_condition |-> pd.medical_condition, zip_code |-> pd.zip_code,
     insurance |-> pd.insurance, phone_suffix |-> phone_suffix[pd.phone_number], session_id |-> pd.session_id]

\* _pass_to_exa_helper(): the record is handed to ExaHelper and, when that
\* returns, the appointment processing is triggered; whatever fails there is
\* caught.  search_nearby_institutions is no method of the class,
\* so the institutions file is never written.
\* The hand-off with neither "except Exception".
pass_to_exa_helper_uncaught(w) ==
    [Called(w, "exa_helper") EXCEPT !.continuations = Append(@, medical_data(w.pd)),
                                    !.failed = w.helper # "ok"]

pass_to_exa_helper(w) ==
    LET handed == [Called(w, "exa_helper") EXCEPT !.continuations = Append(@, medical_data(w.pd))]
    IN  IF w.helper = "finder_raises" THEN handed        \* caught by the outer except
        ELSE Called(handed, "appointment_processing")    \* if it raises, the inner except

\* _save_patient_data()
save_patient_data(w) ==
    LET saved == [Called(w, "save_patient_data") EXCEPT
                     !.patient_files = AppendTo(@, phone_suffix[w.pd.phone_number], w.pd)]
    IN  IF is_basic_info_complete(w.pd) THEN pass_to_exa_helper(saved) ELSE saved

\* _analyze_symptoms without its "Save updated data" step.
analyze_symptoms_unsaved(w, reasoning) ==
    LET asked == Called(w, "reasoning_agent") IN
    IF reasoning = <<>> THEN Outcome(TRUE, asked, <<>>)
    ELSE LET pd1 == Say([asked.pd EXCEPT !.reasoning_analysis = reasoning],
                        "reasoning_agent", reasoning[1])
             done == [asked EXCEPT !.pd = pd1]
         IN  Outcome(FALSE, done,
                     <<Response("reasoning_agent", reasoning[1], done.pd,
                                "continue_symptom_analysis", FALSE)>>)

\* _analyze_symptoms(text)
analyze_symptoms(w, reasoning) ==
    LET asked == Called(w, "reasoning_agent") IN
    IF reasoning = <<>> THEN Outcome(TRUE, asked, <<>>)
    ELSE LET pd1 == Say([asked.pd EXCEPT !.reasoning_analysis = reasoning],
                        "reasoning_agent", reasoning[1])
             done == save_patient_data([asked EXCEPT !.pd = pd1])
         IN  IF done.failed THEN Outcome(TRUE, done, <<>>)
             ELSE Outcome(FALSE, done,
                          <<Response("reasoning_agent", reasoning[1], done.pd,
                                     "continue_symptom_analysis", FALSE)>>)

\* _extract_structured_data() with _save_extracted_data()
extract_structured_data(w) ==
    [Called(w, "extraction_agent") EXCEPT
        !.extracted_file = Append(@, [session_id |-> w.pd.session_id,
                                      conversation_turns |-> Len(w.pd.conversation_history)])]

\* The combined text of the transition turn, reasoning output only.
TransitionText_reasoning_only(result, reasoning_response) == reasoning_response

\* f"{str(result)}\n\n{reasoning_response['response']}"
TransitionText(result, reasoning_response) == result \o "\n\n" \o reasoning_response

\* _collect_basic_info(text); found is SimpleFound(text)
collect_basic_info(w, found, intake, out, reasoning) ==
    LET asked == Called(w, "chat_agent") IN
    IF intake = <<>> THEN Outcome(TRUE, asked, <<>>)
    ELSE
    LET pd1 == extract_and_update_patient_data(asked.pd, found, out)
        pd2 == Say(pd1, "chat_agent", intake[1])
        extracted == [Called(asked, "extract_and_update") EXCEPT !.pd = pd2]
    IN  IF ~is_basic_info_complete(pd2)
        THEN Outcome(FALSE, extracted,
                     <<Response("chat_agent", intake[1], pd2, "continue_basic_info", FALSE)>>)
        ELSE LET saved == save_patient_data(extracted)
                 analysis == IF saved.failed THEN Outcome(TRUE, saved, <<>>)
                             ELSE analyze_symptoms(saved, reasoning)
             IN
             IF analysis.raised THEN analysis
             ELSE Outcome(FALSE, extract_structured_data(analysis.w),
                          <<Response("reasoning_agent",
                                     TransitionText(intake[1], analysis.response[1].response),
                                     pd2, "continue_symptom_analysis", TRUE)>>)

\* The router without its test: every turn goes to the intake role.
process_user_input_intake_only(w, text, found, intake, out, reasoning) ==
    collect_basic_info([w EXCEPT !.pd = Say(@, "user", text)], found, intake, out, reasoning)

\* process_user_input(text)
process_user_input(w, text, found, intake, out, reasoning) ==
    LET heard == [w EXCEPT !.pd = Say(@, "user", text)] IN
    IF ~is_basic_info_complete(heard.pd)
    THEN collect_basic_info(heard, found, intake, out, reasoning)
    ELSE LET analysis == analyze_symptoms(heard, reasoning) IN
         IF analysis.raised THEN analysis
         ELSE Outcome(FALSE, extract_structured_data(analysis.w), analysis.response)

(***************************************************************************)
(* Spec: the /api/chat endpoint, one action per request                    *)
(***************************************************************************)
ChatResponse(status, agent, response, patient_data, next_step, guardrail_triggered, guardrail_warning) ==
    [status |-> status, agent |-> agent, response |-> response, patient_data |-> patient_data,
     next_step |-> next_step, guardrail_triggered |-> guardrail_triggered,
     guardrail_warning |-> guardrail_warning]

FallbackText ==
    "I apologize, but I need to be more careful with my response. Let me rephrase that to ensure I'm providing safe and appropriate information. Please consult with a healthcare professional for specific medical advice."

\* the answer to a request whose input the guardrail blocked (310-317)
BlockedInputResponse(session_id, input_warning) ==
    ChatResponse(200, "guardrail_system", input_warning, [session_id |-> session_id],
                 "input_validation_failed", TRUE, <<input_warning>>)

\* The answer to a blocked output without the flag.
BlockedOutputResponse_unflagged(response, response_warning) ==
    ChatResponse(200, "guardrail_system", FallbackText, response.patient_data,
                 response.next_step, FALSE, <<>>)

\* the answer when validate_ai_response rejected the role's text (345-352)
BlockedOutputResponse(response, response_warning) ==
    ChatResponse(200, "guardrail_system", FallbackText, response.patient_data,
                 response.next_step, TRUE, <<response_warning>>)

\* The answer built from the last message of the history instead of the
\* validated text.
PassedResponse_last_message(response) ==
    ChatResponse(200, response.agent,
                 response.patient_data.conversation_history[
                     Len(response.patient_data.conversation_history)].message,
                 response.patient_data, response.next_step, FALSE, <<>>)

\* the answer of a turn that passed both guardrails (404-411)
PassedResponse(response) ==
    ChatResponse(200, response.agent, response.response, response.patient_data,
                 response.next_step, FALSE, <<>>)

KickoffError == "LLM call failed"

\* raise HTTPException(status_code=500, detail=f"Internal server error: {str(e)}")
ErrorResponse(e) ==
    ChatResponse(500, "None", "Internal server error: " \o e, <<>>, "None", FALSE, <<>>)

\* session_counters[id] += 1, from 0 when the id is new
Bump(counters, id) ==
    IF id \in DOMAIN counters THEN [counters EXCEPT ![id] = @ + 1] ELSE counters @@ (id :> 1)

\* GuardrailValidator.log_guardrail_event: with monitoring on, the counter
\* of the run's current session is advanced.
log_guardrail_event(counters, run) ==
    IF run # <<>> THEN Bump(counters, run[1]) ELSE counters

\* One row of wandb.run.guardrail_table, the emitted GuardrailEvent.
GuardrailEvent(event_type, severity, blocked, session_id, step) ==
    [event_type |-> event_type, severity |-> severity, blocked |-> blocked,
     session_id |-> session_id, step |-> step]

\* The rows one log_guardrail_event call adds to the table, called with the
\* arguments carried by verdict: one with monitoring on, none with it off.
LoggedEvents(counters, run, verdict) ==
    IF run # <<>>
    THEN <<GuardrailEvent(verdict.event_type, verdict.severity, verdict.blocked, run[1],
                          log_guardrail_event(counters, run)[run[1]])>>
    ELSE <<>>

\* str(uuid.uuid4()): an id no session has yet
NewSessionId(sessions) == "s" \o ToString(Cardinality(DOMAIN sessions) + 1)

\* The texts validate_ai_response can be handed.
ReplyTexts ==
    LET intakes == {a[1] : a \in IntakeAnswers \ {<<>>}}
        reasonings == {a[1] : a \in ReasoningAnswers \ {<<>>}}
    IN  intakes \cup reasonings \cup {TransitionText(i, r) : i \in intakes, r \in reasonings}

\* The validators and the regex extraction on the texts above, evaluated once.
InputChecked == [text \in Utterances |-> validate_user_input(text)]
AiChecked == [text \in ReplyTexts |-> validate_ai_response(text)]
Found == [text \in Utterances |-> SimpleFound(text)]

\* "if not input_valid" taken as never true
InputBlocked_never(text) == FALSE

\* "input_valid, input_warning = validate_user_input(...); if not input_valid"
InputBlocked(text) == ~InputChecked[text].allowed

MaxTurns == 2

TurnRecord(n, session_id, text, key, was_complete, calls, intake, out, reasoning, response, validations, events, helper) ==
    [n |-> n, session_id |-> session_id, text |-> text, key |-> key,
     was_complete |-> was_complete, calls |-> calls, intake |-> intake, out |-> out,
     reasoning |-> reasoning, response |-> response,
     validations |-> validations, events |-> events, helper |-> helper]

\* The request ids a client sends: one it made up, or one a response gave it.
RequestIds == {"c1"} \cup DOMAIN patient_sessions

\* chat_endpoint on a request whose input was blocked
ChatBlocked(session_id, text, counters, input_events) ==
    /\ session_counters' = counters
    /\ chat_response' = <<BlockedInputResponse(session_id, InputChecked[text].reason)>>
    /\ turn' = TurnRecord(turn.n + 1, session_id, text, <<>>, FALSE, <<>>, <<>>, <<>>, <<>>, <<>>,
                          <<InputChecked[text]>>, input_events, "ok")
    /\ UNCHANGED <<patient_sessions, patient_files, extracted_file, continuations, served>>

\* chat_endpoint from "Get or create PatientHero instance" on
ChatProcessed(rid, session_id, text, counters, input_events, run, intake, out, reasoning, helper) ==
    LET known == session_id \in DOMAIN patient_sessions
        key == IF known THEN session_id ELSE NewSessionId(patient_sessions)
        pd == IF known THEN patient_sessions[session_id] ELSE PatientData(key)
        counters2 == IF known \/ key \in DOMAIN counters THEN counters
                     ELSE counters @@ (key :> counters[session_id])
    IN
    \* "response = patient_hero.process_user_input(request.user_input)"
    \E result \in {process_user_input(
                       World(pd, patient_files, extracted_file, continuations, <<>>, helper),
                       text, Found[text], intake, out, reasoning)} :
    LET asked_intake == \E i \in DOMAIN result.w.calls : result.w.calls[i] = "chat_agent"
        asked_extraction == \E i \in DOMAIN result.w.calls : result.w.calls[i] = "extract_and_update"
        asked_reasoning == \E i \in DOMAIN result.w.calls : result.w.calls[i] = "reasoning_agent"
        fired == \E i \in DOMAIN result.w.calls : result.w.calls[i] = "exa_helper"
        validated == AiChecked[result.response[1].response]
    IN  /\ patient_sessions' = IF known THEN [patient_sessions EXCEPT ![key] = result.w.pd]
                               ELSE patient_sessions @@ (key :> result.w.pd)
        /\ patient_files' = result.w.patient_files
        /\ extracted_file' = result.w.extracted_file
        /\ continuations' = result.w.continuations
        /\ wandb_run' = run
        /\ served' = IF rid = "" THEN served ELSE served \cup {[session_id |-> rid, record |-> key]}
        /\ turn' = TurnRecord(turn.n + 1, session_id, text, <<key>>, is_basic_info_complete(pd),
                              result.w.calls,
                              IF asked_intake THEN intake ELSE <<>>,
                              IF asked_extraction THEN <<out>> ELSE <<>>,
                              IF asked_reasoning THEN reasoning ELSE <<>>,
                              result.response,
                              IF result.raised THEN <<InputChecked[text]>>
                              ELSE <<InputChecked[text], validated>>,
                              IF result.raised THEN input_events
                              ELSE input_events \o LoggedEvents(counters2, run, validated),
                              IF fired THEN helper ELSE "ok")
        /\ session_counters' = IF result.raised THEN counters2 ELSE log_guardrail_event(counters2, run)
        /\ chat_response' =
              IF result.raised THEN <<ErrorResponse(KickoffError)>>
              ELSE IF ~validated.allowed
              THEN <<BlockedOutputResponse(result.response[1], validated.reason)>>
              ELSE <<PassedResponse(result.response[1])>>

\* POST /api/chat with request (session_id = rid or None, user_input = text);
\* intake, out and reasoning are what the roles answer if they are asked,
\* helper what the continuation does if it is fired.
ChatTurn(rid, text, intake, out, reasoning, helper) ==
    /\ turn.n < MaxTurns
    /\ LET session_id == IF rid = "" THEN "temp" ELSE rid
           run == IF wandb_run = <<>> THEN <<>> ELSE <<session_id>>
           requested == Bump(session_counters, session_id)
           input_events == LoggedEvents(requested, run, InputChecked[text])
           counters == log_guardrail_event(requested, run)
       IN  IF InputBlocked(text)
           THEN ChatBlocked(session_id, text, counters, input_events) /\ wandb_run' = run
           ELSE ChatProcessed(rid, session_id, text, counters, input_events, run,
                              intake, out, reasoning, helper)
    /\ UNCHANGED <<guardVars, cleanVars, discVars, findVars, pipeVars, overlapVars, handoffVars>>

\* The server starts with monitoring off or on, and no session.
Init ==
    /\ patient_sessions = <<>>
    /\ session_counters = <<>>
    /\ wandb_run \in {<<>>, <<"default">>}
    /\ patient_files = <<>>
    /\ extracted_file = <<>>
    /\ continuations = <<>>
    /\ chat_response = <<>>
    /\ turn = NoTurn
    /\ served = {}
    /\ GuardIdle
    /\ CleanIdle
    /\ DiscIdle
    /\ FindIdle
    /\ PipeIdle
    /\ OverlapIdle
    /\ HandoffIdle

\* The answers a request consumes: the intake role is asked when the input
\* passes and the record is not complete, the extraction agent when the
\* intake role answered, the reasoning role when the record is or becomes
\* complete.  An answer nobody asks for is <<>>.
RecordFor(rid) == IF rid \in DOMAIN patient_sessions THEN patient_sessions[rid] ELSE PatientData(rid)

IntakeAsked(rid, text) ==
    IF ~InputBlocked(text) /\ ~is_basic_info_complete(RecordFor(rid)) THEN IntakeAnswers ELSE {<<>>}

ExtractionAsked(rid, text, intake) ==
    IF ~InputBlocked(text) /\ ~is_basic_info_complete(RecordFor(rid)) /\ intake # <<>>
    THEN ExtractionOutputs ELSE {ExtractionOutput("no_json", <<>>)}

ReasoningAsked(rid, text, intake, out) ==
    IF /\ ~InputBlocked(text)
       /\ \/ is_basic_info_complete(RecordFor(rid))
          \/ /\ intake # <<>>
             /\ is_basic_info_complete(
                    extract_and_update_patient_data(Say(RecordFor(rid), "user", text), Found[text], out))
    THEN ReasoningAnswers ELSE {<<>>}

\* The continuation is fired by a save of a complete record: after the
\* intake side of the turn that completes the record, and after every
\* answer of the reasoning role.
HelperFired(rid, text, intake, out, reasoning) ==
    IF /\ ReasoningAsked(rid, text, intake, out) # {<<>>}
       /\ ~is_basic_info_complete(RecordFor(rid)) \/ reasoning # <<>>
    THEN HelperOutcomes ELSE {"ok"}

Next ==
    \E rid \in RequestIds, text \in Utterances :
        \E intake \in IntakeAsked(rid, text) :
            \E out \in ExtractionAsked(rid, text, intake) :
                \E reasoning \in ReasoningAsked(rid, text, intake, out) :
                    \E helper \in HelperFired(rid, text, intake, out, reasoning) :
                        ChatTurn(rid, text, intake, out, reasoning, helper)

Spec == Init /\ [][Next]_vars

(***************************************************************************)
(* Properties of the chat endpoint                                         *)
(***************************************************************************)
RequiredFields == {"medical_condition", "zip_code", "phone_number", "insurance"}

\* The last request was blocked by the input guardrail.
LastInputBlocked == turn.n > 0 /\ ~InputChecked[turn.text].allowed

\* C2: a chat turn whose input the input guardrail blocks invokes no role and
\* no extraction, answers with agent guardrail_system and next_step
\* input_validation_failed, and leaves the session store, every record's
\* fields and every conversation history as they were.
C2_BlockedTurnChangesNothing ==
    [][(turn'.n = turn.n + 1 /\ ~InputChecked[turn'.text].allowed)
          => /\ turn'.calls = <<>>
             /\ chat_response'[1].agent = "guardrail_system"
             /\ chat_response'[1].next_step = "input_validation_failed"
             /\ patient_sessions' = patient_sessions]_vars

\* A blocked second turn, sent while a session with collected fields exists.
C2_Witness ==
    /\ turn.n = 2
    /\ LastInputBlocked
    /\ chat_response[1].agent = "guardrail_system"
    /\ \E k \in DOMAIN patient_sessions :
          /\ patient_sessions[k].zip_code # <<>>
          /\ patient_sessions[k].conversation_history # <<>>

\* C3: each session id maps to exactly one record: two processed requests
\* that carried the same session id were applied to the same record.
C3_SameIdSameRecord ==
    \A p, q \in served : p.session_id = q.session_id => p.record = q.record

\* C4: for every record of the session store, is_basic_info_complete is true
\* iff medical_condition, zip_code, phone_number and insurance are all
\* non-null, and changing symptoms, reasoning_analysis or
\* conversation_history does not change its result.
C4_CompleteIffFourFieldsSet ==
    \A k \in DOMAIN patient_sessions :
        LET pd == patient_sessions[k] IN
        /\ is_basic_info_complete(pd) <=> (\A f \in RequiredFields : pd[f] # <<>>)
        /\ \A symptoms \in {<<>>, <<<<"cough">>>>}, analysis \in {<<>>, <<"Rest.">>},
              history \in {<<>>, <<Message("user", "hello")>>} :
              is_basic_info_complete([pd EXCEPT !.symptoms = symptoms,
                                                !.reasoning_analysis = analysis,
                                                !.conversation_history = history])
                  = is_basic_info_complete(pd)

\* A record that is complete and has symptoms, an analysis and a history,
\* and a record that is not complete, whose extraction was offered "" for
\* the phone number.
C4_Witness ==
    /\ \E k \in DOMAIN patient_sessions :
          /\ is_basic_info_complete(patient_sessions[k])
          /\ patient_sessions[k].symptoms # <<>>
          /\ patient_sessions[k].reasoning_analysis # <<>>
    /\ \E k \in DOMAIN patient_sessions :
          /\ ~is_basic_info_complete(patient_sessions[k])
          /\ turn.key = <<k>>
          /\ turn.out # <<>> /\ turn.out[1].kind = "json"
          /\ turn.out[1].data.found /\ turn.out[1].data.phone_number = <<"">>

\* C5: once medical_condition, zip_code, phone_number or insurance of a
\* record holds a value, no later turn changes it.
C5_WriteOnce ==
    [][\A k \in DOMAIN patient_sessions : \A f \in RequiredFields :
          patient_sessions[k][f] # <<>> => patient_sessions'[k][f] = patient_sessions[k][f]]_vars

\* The second turn of a session: the extraction agent offered a ZIP code
\* other than the one the record holds, and the record holds a condition
\* while the regex fallback of an earlier or this turn saw another one.
C5_Witness ==
    /\ turn.n = 2
    /\ turn.key # <<>>
    /\ LET pd == patient_sessions[turn.key[1]] IN
       /\ Len(pd.conversation_history) >= 4
       /\ turn.out # <<>> /\ turn.out[1].kind = "json" /\ turn.out[1].data.found
       /\ turn.out[1].data.zip_code # <<>>
       /\ pd.zip_code # <<>>
       /\ pd.zip_code # turn.out[1].data.zip_code

\* The last turn found the record incomplete and left it complete.
TransitionTurn ==
    /\ turn.key # <<>>
    /\ ~turn.was_complete
    /\ is_basic_info_complete(patient_sessions[turn.key[1]])

CountCalls(name) == Cardinality({i \in DOMAIN turn.calls : turn.calls[i] = name})

\* C6: on the turn that completes the record the reasoning role is invoked
\* exactly once, after the intake reply, and the response process_user_input
\* returns is the reasoning agent's and contains the intake reply and the
\* reasoning output.
C6_TransitionRunsReasoningOnce ==
    TransitionTurn =>
        /\ CountCalls("reasoning_agent") = 1
        /\ CountCalls("chat_agent") = 1
        /\ \A i, j \in DOMAIN turn.calls :
              (turn.calls[i] = "chat_agent" /\ turn.calls[j] = "reasoning_agent") => i < j
        /\ turn.response # <<>>
              => /\ turn.response[1].agent = "reasoning_agent"
                 /\ turn.response[1].next_step = "continue_symptom_analysis"
                 /\ Contains(turn.response[1].response, turn.intake[1])
                 /\ Contains(turn.response[1].response, turn.reasoning[1])
                 /\ patient_sessions[turn.key[1]].reasoning_analysis = turn.reasoning

\* A second turn that completed the record and returned.
C6_Witness ==
    /\ TransitionTurn
    /\ turn.n = 2
    /\ Len(patient_sessions[turn.key[1]].conversation_history) = 5
    /\ turn.response # <<>>
    /\ chat_response[1].status = 200

\* The output guardrail rejected the text process_user_input returned.
OutputBlocked ==
    /\ turn.response # <<>>
    /\ ~AiChecked[turn.response[1].response].allowed

\* C10: when the output guardrail rejects the role's response the caller
\* gets the fixed fallback text with guardrail_triggered and a warning, and
\* the record in the session store still holds the fields and the history
\* entries the turn wrote.
C10_BlockedOutputKeepsWrites ==
    OutputBlocked =>
        LET answer == chat_response[1]
            written == turn.response[1].patient_data
            pd == patient_sessions[turn.key[1]]
            h == written.conversation_history
        IN  /\ answer.response = FallbackText
            /\ answer.guardrail_triggered
            /\ answer.guardrail_warning # <<>>
            /\ \A f \in RequiredFields \cup {"symptoms"} : pd[f] = written[f]
            /\ Len(h) >= 2
            /\ h[Len(h) - 1] = Message("user", turn.text)
            /\ h[Len(h)].speaker \in {"chat_agent", "reasoning_agent"}
            /\ SubSeq(pd.conversation_history, 1, Len(h)) = h

\* A first turn whose reply was rejected after its extraction had set the
\* ZIP code.
C10_Witness ==
    /\ OutputBlocked
    /\ turn.n = 1
    /\ patient_sessions[turn.key[1]].zip_code # <<>>
    /\ chat_response[1].response = FallbackText

\* C11: every call of validate_user_input or validate_ai_response emits
\* exactly one GuardrailEvent; the event is blocked exactly when the call
\* returns allowed = false and has severity info exactly when it returns
\* allowed = true.
C11_EveryValidationEmitsOneEvent ==
    /\ Len(turn.events) = Len(turn.validations)
    /\ \A i \in DOMAIN turn.events :
          /\ turn.events[i].blocked = ~turn.validations[i].allowed
          /\ (turn.events[i].severity = "info") = turn.validations[i].allowed

\* The text, as the validator reads it, matches a rule of the first loop
\* with the given event type.
MatchesInappropriate(text, event_type) ==
    \E k \in DOMAIN inappropriate_patterns :
        /\ inappropriate_patterns[k].event_type = event_type
        /\ Search(inappropriate_patterns[k].re, lower(text), FALSE)

\* The text matches a medical-advice-request rule.
MatchesAdviceRequest(text) ==
    \E k \in DOMAIN medical_advice_patterns : Search(medical_advice_patterns[k].re, lower(text), FALSE)

AdviceEventTypes == {"medical_advice_request", "dosage_request", "diagnosis_request"}

\* C12: the categories are decided in the order self-harm, illegal content,
\* dangerous dosage, medical-advice request: a text is rejected with the
\* message and event type of the earliest category it matches, and a text
\* matching none is allowed.
C12_EarliestCategoryDecides ==
    input_result # <<>> =>
        LET verdict == input_result[1] IN
        IF MatchesInappropriate(user_input, "suicide_ideation")
        THEN ~verdict.allowed /\ verdict.reason = CrisisReason /\ verdict.event_type = "suicide_ideation"
        ELSE IF MatchesInappropriate(user_input, "illegal_content")
        THEN ~verdict.allowed /\ verdict.reason = IllegalReason /\ verdict.event_type = "illegal_content"
        ELSE IF MatchesInappropriate(user_input, "dangerous_dosage")
        THEN ~verdict.allowed /\ verdict.reason = DosageReason /\ verdict.event_type = "dangerous_dosage"
        ELSE IF MatchesAdviceRequest(user_input)
        THEN ~verdict.allowed /\ verdict.reason = AdviceReason /\ verdict.event_type \in AdviceEventTypes
        ELSE verdict.allowed

\* A validated text without self-harm that matches an illegal-content rule
\* and an advice-request rule, rejected as illegal content.
C12_Witness ==
    /\ input_result # <<>>
    /\ ~MatchesInappropriate(user_input, "suicide_ideation")
    /\ MatchesInappropriate(user_input, "illegal_content")
    /\ MatchesAdviceRequest(user_input)
    /\ input_result[1].reason = IllegalReason

(***************************************************************************)
(* ExaHelper (crewai_agents/exa_helper.py)                                 *)
(***************************************************************************)
\* str.endswith
endswith(str, suffix) ==
    Len(str) >= Len(suffix) /\ SubSeq(str, Len(str) - Len(suffix) + 1, Len(str)) = suffix

\* One item of result.results, with what exa.answer says when asked about
\* it: <<>> when the call raises or gives no answer, else <<answer.answer>>.
SearchItem(title, url, answer) == [title |-> title, url |-> url, answer |-> answer]

guess_institution_type(title, url) ==
    LET title_lower == lower(title) IN
    IF Contains(title_lower, "emergency") THEN "Emergency Room"
    ELSE IF Contains(title_lower, "urgent") THEN "Urgent Care"
    ELSE IF Contains(title_lower, "hospital") THEN "Hospital"
    ELSE IF Contains(title_lower, "clinic") THEN "Clinic"
    ELSE IF Contains(title_lower, "medical center") THEN "Medical Center"
    ELSE IF Contains(title_lower, "va") \/ Contains(title_lower, "veterans") \/ Contains(url, ".gov")
    THEN "Government Facility"
    ELSE "Healthcare Facility"

exa_check_insurance(item, insurance, configured) ==
    IF ~Truthy(insurance) \/ item.url = "" \/ ~configured THEN "unknown"
    ELSE IF item.answer = <<>> THEN "unknown"
    ELSE LET ans == lower(item.answer[1]) IN
         IF Contains(ans, "yes") \/ Contains(ans, "accept") THEN "true"
         ELSE IF Contains(ans, "no") \/ Contains(ans, "not accept") THEN "false"
         ELSE "unknown"

Hospital(item, insurance, configured) ==
    [hospital_name |-> item.title, link |-> item.url,
     institution_type |-> guess_institution_type(item.title, item.url),
     accepts_user_insurance |-> exa_check_insurance(item, insurance, configured)]

\* The filter with every url let through.
PassesDomainFilter_any(url) == TRUE

\* The two "continue" tests of the loop: a url goes on when neither fires.
PassesDomainFilter(url) ==
    /\ endswith(url, ".org") \/ Contains(url, ".org/") \/ Contains(url, ".gov")
    /\ Contains(url, ".org") \/ Contains(url, ".gov")

MaxHospitals == 5

RECURSIVE FetchHospitals_uncapped(_, _, _, _)
\* The loop without its break.
FetchHospitals_uncapped(items, insurance, configured, found) ==
    IF items = <<>> THEN found
    ELSE IF ~PassesDomainFilter(Head(items).url)
    THEN FetchHospitals_uncapped(Tail(items), insurance, configured, found)
    ELSE FetchHospitals_uncapped(Tail(items), insurance, configured,
                                 Append(found, Hospital(Head(items), insurance, configured)))

RECURSIVE FetchHospitals(_, _, _, _)
\* "for item in result.results", entered with the list hospitals as found
FetchHospitals(items, insurance, configured, found) ==
    IF items = <<>> THEN found
    ELSE IF ~PassesDomainFilter(Head(items).url)
    THEN FetchHospitals(Tail(items), insurance, configured, found)
    ELSE LET appended == Append(found, Hospital(Head(items), insurance, configured)) IN
         IF Len(appended) = MaxHospitals THEN appended
         ELSE FetchHospitals(Tail(items), insurance, configured, appended)

(***************************************************************************)
(* SpecFind: process_patient_from_main on one search result list           *)
(***************************************************************************)
SearchItems ==
    { SearchItem("St Mary Hospital", "https://stmary.org", <<"Yes, Aetna is accepted.">>),
      SearchItem("Mayo Urgent Care", "https://mayoclinic.org/care", <<"No.">>),
      SearchItem("Veterans Health", "https://va.gov/find", <<"We do not accept Aetna.">>),
      SearchItem("Bay Health", "https://bayhealth.org", <<"Unclear.">>),
      SearchItem("City Clinic", "https://cityclinic.com", <<>>) }

MaxResults == 6

RECURSIVE ResultLists(_)
\* The result lists of up to n items in which no page follows itself.
ResultLists(n) ==
    IF n = 0 THEN {<<>>}
    ELSE LET shorter == ResultLists(n - 1) IN
         shorter \cup
         UNION { {Append(l, item) : item \in {x \in SearchItems : l = <<>> \/ x # l[Len(l)]}} :
                 l \in {x \in shorter : Len(x) = n - 1} }

InitFind ==
    /\ exa \in BOOLEAN
    /\ exa_insurance \in {<<>>, <<"Aetna">>}
    /\ search_results \in ResultLists(MaxResults)
    /\ hospitals = <<>>
    /\ processed_file = <<>>
    /\ GuardIdle
    /\ CleanIdle
    /\ DiscIdle
    /\ ChatIdle
    /\ PipeIdle
    /\ OverlapIdle
    /\ HandoffIdle

\* ExaHelper.process_patient_from_main(patient_data)
ProcessPatientFromMain ==
    /\ hospitals = <<>>
    /\ IF ~exa
       THEN hospitals' = << <<>> >> /\ UNCHANGED processed_file
       ELSE LET found == FetchHospitals(search_results, exa_insurance, exa, <<>>) IN
            /\ processed_file' = <<found>>
            /\ hospitals' = <<found>>
    /\ UNCHANGED <<exa, exa_insurance, search_results, guardVars, cleanVars, discVars, chatVars, pipeVars, overlapVars, handoffVars>>

NextFind == ProcessPatientFromMain

SpecFind == InitFind /\ [][NextFind]_vars

RECURSIVE Candidates(_)
\* The search results the domain filter lets through, in search-result order.
Candidates(items) ==
    IF items = <<>> THEN <<>>
    ELSE (IF PassesDomainFilter(Head(items).url) THEN <<Head(items)>> ELSE <<>>)
         \o Candidates(Tail(items))

\* C13: at most 5 institutions are returned, and when more than 5 search
\* results pass the domain filter the first 5 of them are returned, in
\* search-result order.
C13_AtMostFiveFirstFive ==
    hospitals # <<>> =>
        LET returned == hospitals[1]
            passing == Candidates(search_results)
        IN  /\ Len(returned) <= 5
            /\ (exa /\ Len(passing) > 5) =>
                  /\ Len(returned) = 5
                  /\ \A i \in 1..5 : /\ returned[i].link = passing[i].url
                                     /\ returned[i].hospital_name = passing[i].title

\* Six search results that all pass the filter, the last two different, and
\* five institutions returned.
C13_Witness ==
    /\ hospitals # <<>>
    /\ exa
    /\ Len(search_results) = 6
    /\ Len(Candidates(search_results)) = 6
    /\ search_results[6].url # search_results[5].url
    /\ Len(hospitals[1]) = 5

ReturnedLinks == {hospitals[1][i].link : i \in DOMAIN hospitals[1]}

\* C14: every institution returned has a url that ends in .org or contains
\* .gov; a search result whose url satisfies neither is never returned.
C14_UrlEndsOrgOrHasGov ==
    hospitals # <<>> =>
        \A url \in ReturnedLinks : endswith(url, ".org") \/ Contains(url, ".gov")

\* C14, amended: every institution returned has a url that ends in .org,
\* contains ".org/" or contains ".gov", and is the url of a search result; a
\* search result whose url satisfies none of the three is never returned.
C14_UrlEndsOrgHasOrgSlashOrGov ==
    hospitals # <<>> =>
        \A url \in ReturnedLinks :
            /\ endswith(url, ".org") \/ Contains(url, ".org/") \/ Contains(url, ".gov")
            /\ \E i \in DOMAIN search_results : search_results[i].url = url

\* The search held a .com result and a result with a path under a .org
\* host; the second was returned and the first was not.
C14_Witness ==
    /\ hospitals # <<>>
    /\ \E i \in DOMAIN search_results : search_results[i].url = "https://cityclinic.com"
    /\ "https://mayoclinic.org/care" \in ReturnedLinks
    /\ "https://cityclinic.com" \notin ReturnedLinks

\* C15: every per-institution result the discovery engine returns carries a
\* status in {success, no_slots_found, error}, also the result of an
\* institution without a website url.
C15_EveryResultHasStatus ==
    DiscoverReturned =>
        \A k \in DOMAIN results : results[k].status \in {"success", "no_slots_found", "error"}

\* The request persisted a snapshot of its record.
Persisted == \E i \in DOMAIN turn.calls : turn.calls[i] = "save_patient_data"

\* The snapshot written last to the file of the record pd.
LastSnapshot(pd) ==
    LET file == patient_files[phone_suffix[pd.phone_number]] IN file[Len(file)]

\* C16: when a request has persisted a snapshot of its record, the record
\* the session store gives back for that session has the snapshot's field
\* values and a conversation history as long as the snapshot's.
C16_StoreMatchesSnapshot ==
    Persisted =>
        LET pd == patient_sessions[turn.key[1]]
            snapshot == LastSnapshot(pd)
        IN  /\ snapshot.session_id = pd.session_id
            /\ \A f \in RequiredFields \cup {"symptoms", "reasoning_analysis"} : snapshot[f] = pd[f]
            /\ Len(snapshot.conversation_history) = Len(pd.conversation_history)

\* The request that completed the record persisted it twice, the second
\* time with the reasoning role's reply in the history.
C16_Witness ==
    /\ Persisted
    /\ TransitionTurn
    /\ turn.response # <<>>
    /\ Len(patient_files[phone_suffix[patient_sessions[turn.key[1]].phone_number]]) >= 2
    /\ patient_sessions[turn.key[1]].reasoning_analysis # <<>>

\* A role that was asked in the last request raised.
RoleRaised ==
    \/ CountCalls("chat_agent") > 0 /\ turn.intake = <<>>
    \/ CountCalls("reasoning_agent") > 0 /\ turn.reasoning = <<>>

\* C17: a failure of ExaHelper or of the appointment processing in the
\* continuation fired for a complete record does not fail the chat turn:
\* unless a role itself raised, the request is answered with status 200 and
\* process_user_input returned the reasoning role's response.
C17_ContinuationFailureKeepsTurn ==
    (turn.helper # "ok" /\ ~RoleRaised) =>
        /\ chat_response[1].status = 200
        /\ turn.response # <<>>
        /\ turn.response[1].agent = "reasoning_agent"
        /\ Contains(turn.response[1].response, turn.reasoning[1])
        /\ chat_response[1].next_step = "continue_symptom_analysis"

\* ExaHelper raised in the turn that completed the record, and the caller
\* got the reasoning role's text.
C17_Witness ==
    /\ turn.helper = "finder_raises"
    /\ TransitionTurn
    /\ chat_response[1].status = 200
    /\ chat_response[1].agent = "reasoning_agent"
    /\ Contains(chat_response[1].response, turn.reasoning[1])

\* C18: ANALYZING has no exit.  A record that is complete stays in the
\* session store and stays complete, and a request routed to it is handled
\* by the reasoning role and not by the intake role, whatever the input.
C18_AnalyzingHasNoExit ==
    [][\A k \in DOMAIN patient_sessions :
          is_basic_info_complete(patient_sessions[k]) =>
              /\ k \in DOMAIN patient_sessions'
              /\ is_basic_info_complete(patient_sessions'[k])
              /\ (turn'.n = turn.n + 1 /\ turn'.key = <<k>>) =>
                    /\ turn'.calls # <<>>
                    /\ turn'.calls[1] = "reasoning_agent"
                    /\ \A i \in DOMAIN turn'.calls : turn'.calls[i] # "chat_agent"]_vars

\* A second request, routed to the record the first one completed, that the
\* reasoning role handled.
C18_Witness ==
    /\ turn.n = 2
    /\ turn.was_complete
    /\ CountCalls("reasoning_agent") = 1
    /\ CountCalls("chat_agent") = 0
    /\ Len(patient_sessions[turn.key[1]].conversation_history) >= 5

\* C19: a response that carries role-generated text and is returned with
\* guardrail_triggered = false carries exactly the text that
\* validate_ai_response was called on, and accepted, in the same request.
C19_UntriggeredTextWasAccepted ==
    (/\ chat_response # <<>>
     /\ chat_response[1].agent \in {"chat_agent", "reasoning_agent"}
     /\ ~chat_response[1].guardrail_triggered) =>
        /\ turn.response # <<>>
        /\ chat_response[1].response = turn.response[1].response
        /\ Len(turn.validations) = 2
        /\ turn.validations[2].allowed
        /\ turn.validations[2] = AiChecked[chat_response[1].response]

\* The request that completed the record was answered, unflagged, with the
\* intake reply and the reasoning output joined.
C19_Witness ==
    /\ TransitionTurn
    /\ chat_response[1].status = 200
    /\ ~chat_response[1].guardrail_triggered
    /\ chat_response[1].agent = "reasoning_agent"
    /\ chat_response[1].response = TransitionText(turn.intake[1], turn.reasoning[1])

\* The regex fallback has acted on the record: every field the patterns find
\* in the text is set.
FallbackApplied(pd, found) ==
    /\ Truthy(found.medical_condition) => Truthy(pd.medical_condition)
    /\ Truthy(found.zip_code) => Truthy(pd.zip_code)
    /\ Truthy(found.phone_number) => Truthy(pd.phone_number)
    /\ Truthy(found.insurance) => Truthy(pd.insurance)

\* C20: whenever the extraction of a turn raised, or returned a text with no
\* JSON object (a returned error string included) or with one that does not
\* parse, the regex fallback has run on the text of that turn.
C20_FailedExtractionRunsFallback ==
    (/\ turn.key # <<>>
     /\ \E i \in DOMAIN turn.calls : turn.calls[i] = "extract_and_update"
     /\ turn.out # <<>>
     /\ turn.out[1].kind \in {"raises", "bad_json", "no_json"}) =>
        FallbackApplied(patient_sessions[turn.key[1]], Found[turn.text])

\* The answer Exa gave about the i-th returned institution.
AnswerAbout(i) == Candidates(search_results)[i].answer

\* C21: an answer stating that the institution does "not accept" the
\* insurance is mapped to false.
C21_NotAcceptIsFalse ==
    (hospitals # <<>> /\ exa /\ Truthy(exa_insurance)) =>
        \A i \in DOMAIN hospitals[1] :
            (AnswerAbout(i) # <<>> /\ Contains(lower(AnswerAbout(i)[1]), "not accept"))
                => hospitals[1][i].accepts_user_insurance = "false"

(***************************************************************************)
(* SpecPipeline: process_clinic on one site, then clean_appointment_data   *)
(* on its result                                                           *)
(***************************************************************************)
PipeClinic == "Clinic"

PageBodies ==
    { <<>>, <<"">>, <<"Call us to book">>,
      <<"Appointments available: 9:00 AM, 2 PM\nWalk-ins welcome">> }

LlmItems ==
    { LlmItem(TRUE, "2 PM", "str", "afternoon"),
      LlmItem(TRUE, "9:00 AM", "str", "morning"),
      LlmItem(TRUE, "1001 Potrero Ave", "str", "address"),
      LlmItem(TRUE, "900", "int", ""),
      LlmItem(FALSE, "10 AM", "str", ""),
      LlmItem(TRUE, "", "missing", "no time") }

MaxItems == 2

LlmResponses ==
    { LlmResponse("raises", <<>>), LlmResponse("invalid_json", <<>>), LlmResponse("not_list", <<>>) }
    \cup { LlmResponse("list", items) : items \in UNION {[1..n -> LlmItems] : n \in 0..MaxItems} }

Pages ==
    { Page(Website(PipeClinic), goto, body, llm) :
        goto \in {"ok", GotoTimeout}, body \in PageBodies, llm \in LlmResponses }

InitPipeline ==
    /\ clinic_page \in {<<p>> : p \in Pages}
    /\ extraction = <<>>
    /\ clinic_result = <<>>
    /\ clinic_summary = <<>>
    /\ GuardIdle
    /\ CleanIdle
    /\ DiscIdle
    /\ ChatIdle
    /\ FindIdle
    /\ OverlapIdle
    /\ HandoffIdle

\* slots = await cls.extract_appointment_slots(page), after a page.goto
\* that did not raise
ExtractSlots ==
    /\ extraction = <<>>
    /\ clinic_result = <<>>
    /\ clinic_page[1].goto = "ok"
    /\ extraction' = <<extract_appointment_slots(clinic_page[1])>>
    /\ UNCHANGED <<clinic_page, clinic_result, clinic_summary,
                   guardVars, cleanVars, discVars, chatVars, findVars, overlapVars, handoffVars>>

\* the rest of process_clinic: clean_appointment_slots and the result dict,
\* or the dict of the except branch
ReturnResult ==
    /\ clinic_result = <<>>
    /\ \/ /\ clinic_page[1].goto # "ok"
          /\ clinic_result' = <<ErrorResult(PipeClinic, clinic_page[1].goto)>>
       \/ /\ extraction # <<>>
          /\ LET cleaned == clean_appointment_slots(extraction[1].slots) IN
             clinic_result' = << IF cleaned.raised THEN ErrorResult(PipeClinic, StripOnInt)
                                 ELSE SlotsResult(PipeClinic, cleaned.list) >>
    /\ UNCHANGED <<clinic_page, extraction, clinic_summary,
                   guardVars, cleanVars, discVars, chatVars, findVars, overlapVars, handoffVars>>

\* cleaned_clinics = clean_appointment_data(processed_clinics), for the one clinic
CleanAppointmentData ==
    /\ clinic_result # <<>>
    /\ clinic_summary = <<>>
    /\ clinic_summary' = <<clean_appointment_data(clinic_result[1])>>
    /\ UNCHANGED <<clinic_page, extraction, clinic_result,
                   guardVars, cleanVars, discVars, chatVars, findVars, overlapVars, handoffVars>>

NextPipeline == ExtractSlots \/ ReturnResult \/ CleanAppointmentData

SpecPipeline == InitPipeline /\ [][NextPipeline]_vars

StageOrder == <<"llm", "regex_fallback", "generated_realistic">>

Ran(stage) == \E i \in DOMAIN extraction[1].stages : extraction[1].stages[i] = stage

\* C22: the stages of one extraction run in the order LLM, regex fallback,
\* synthetic schedule; the regex fallback has run only if the LLM analysis
\* returned no slots, and the synthetic schedule only if the regex fallback
\* ran and returned no slots either.
C22_StagesInFallbackOrder ==
    extraction # <<>> =>
        LET stages == extraction[1].stages
            seen == clinic_page[1]
        IN  /\ Len(stages) \in 1..3
            /\ stages = SubSeq(StageOrder, 1, Len(stages))
            /\ Ran("regex_fallback")
                  => extract_appointment_slots_with_llm(seen.body, seen.llm) = <<>>
            /\ Ran("generated_realistic")
                  => /\ Ran("regex_fallback")
                     /\ extract_appointment_slots_fallback(seen.body) = <<>>

\* The LLM answered with no list, the regex fallback found times on the page
\* and the synthetic schedule was not produced.
C22_Witness ==
    /\ extraction # <<>>
    /\ clinic_page[1].llm.kind = "invalid_json"
    /\ extraction[1].stages = <<"llm", "regex_fallback">>
    /\ extraction[1].slots # <<>>
    /\ \A i \in DOMAIN extraction[1].slots : extraction[1].slots[i].source = "regex_fallback"

ResultSlots == IF clinic_result[1].appointment_slots = <<>> THEN <<>>
               ELSE clinic_result[1].appointment_slots[1]

\* C23: the result of a pipeline that completed without error carries a
\* non-empty slot list.
C23_CompletedResultHasSlots ==
    (clinic_result # <<>> /\ clinic_result[1].status # "error") => ResultSlots # <<>>

SyntheticTag == "generated_realistic"

Sources(list) == {list[i].source : i \in DOMAIN list}

\* C24: the slots of the synthetic stage, and no others, carry the synthetic
\* source tag, in what the extraction returns, in the result of the
\* institution and in its normalized summary.
C24_ProvenancePreserved ==
    /\ extraction # <<>> =>
          /\ Ran("generated_realistic") =>
                (extraction[1].slots # <<>> /\ Sources(extraction[1].slots) = {SyntheticTag})
          /\ ~Ran("generated_realistic") =>
                /\ SyntheticTag \notin Sources(extraction[1].slots)
                /\ Sources(extraction[1].slots) \subseteq
                      {IF Ran("regex_fallback") THEN "regex_fallback" ELSE "llm_extraction"}
    /\ (extraction # <<>> /\ clinic_result # <<>> /\ clinic_result[1].status # "error") =>
          /\ Ran("generated_realistic") =>
                (ResultSlots # <<>> /\ Sources(ResultSlots) = {SyntheticTag})
          /\ ~Ran("generated_realistic") => SyntheticTag \notin Sources(ResultSlots)
    /\ clinic_summary # <<>> =>
          /\ Len(clinic_summary[1].available_slots) = Len(ResultSlots)
          /\ \A i \in DOMAIN ResultSlots :
                clinic_summary[1].available_slots[i].source = ResultSlots[i].source

\* A summary of six slots, all of the synthetic stage and all tagged so.
C24_Witness ==
    /\ clinic_summary # <<>>
    /\ extraction # <<>>
    /\ Ran("generated_realistic")
    /\ Len(clinic_summary[1].available_slots) = MaxGeneratedSlots
    /\ Sources(clinic_summary[1].available_slots) = {SyntheticTag}

\* C25: booking_method is online if the summary has a non-synthetic slot,
\* and otherwise visit_website with a note that names the source URL.
C25_BookingMethodClassified ==
    clinic_summary # <<>> =>
        LET summary == clinic_summary[1] IN
        IF \E i \in DOMAIN summary.available_slots :
              summary.available_slots[i].source # SyntheticTag
        THEN summary.booking_method = "online"
        ELSE /\ summary.booking_method = "visit_website"
             /\ Contains(summary.booking_note, summary.website)

\* The batch (from 0) that clinic k belongs to.
BatchOf(k) == (k - 1) \div MAX_CONCURRENT_TASKS

InFlight == {k \in DOMAIN tasks : tasks[k].pc # "done"}

\* C26: at most max_concurrent (3) pipelines are in flight; the pipelines of
\* a batch are those of one block of three consecutive clinics, and while any
\* of them exists every clinic of the preceding batches has its result.
C26_BatchesOfThreeInOrder ==
    /\ Cardinality(InFlight) <= MAX_CONCURRENT_TASKS
    /\ Cardinality(DOMAIN tasks) <= MAX_CONCURRENT_TASKS
    /\ \A k \in DOMAIN tasks :
          /\ k \in DOMAIN clinics
          /\ \A j \in DOMAIN tasks : BatchOf(j) = BatchOf(k)
          /\ \A j \in DOMAIN clinics :
                BatchOf(j) < BatchOf(k) => (j \in DOMAIN results /\ results[j].name = clinics[j])
          /\ \A j \in DOMAIN clinics : BatchOf(j) >= BatchOf(k) => j \notin DOMAIN results

\* The fourth clinic is being visited, alone, after the first three gave
\* their results.
C26_Witness ==
    /\ disc_pc = "gather"
    /\ Len(clinics) = 4
    /\ Len(results) = 3
    /\ DOMAIN tasks = {4}
    /\ tasks[4].pc = "extract"

RunEnded == disc_pc \in {"returned", "raised", "saved"}

\* C27: the browser is launched once, from the state where there is none, and
\* whenever the run has ended, by return or by an exception that left the
\* batch loop, the browser is closed.
C27_LaunchedOnceClosedAtEnd ==
    [][/\ (browser' = "open" /\ browser # "open") => (browser = "None" /\ disc_pc = "launch")
       /\ browser = "closed" => browser' = "closed"
       /\ RunEnded' => browser' = "closed"]_vars

\* The run was interrupted during its second batch and the browser is closed.
C27_Witness ==
    /\ disc_pc = "raised"
    /\ batch_start = MAX_CONCURRENT_TASKS
    /\ Len(results) = MAX_CONCURRENT_TASKS
    /\ browser = "closed"

\* C29: a task that has delivered its result has no browser context open.
C29_ContextClosedAtDelivery ==
    \A k \in DOMAIN tasks : tasks[k].pc = "done" => k \notin contexts

\* C30: while a later batch is awaited, and when the run was interrupted
\* during one, the persisted output holds the results of every institution
\* of the batches completed before.
C30_CompletedBatchesPersisted ==
    (results # <<>> /\ disc_pc \in {"sleep", "gather", "raised"}) =>
        /\ output_file # <<>>
        /\ Len(output_file[1]) >= Len(results)
        /\ \A k \in DOMAIN results : output_file[1][k] = clean_appointment_data(results[k])

(***************************************************************************)
(* SpecOverlap: two process_clinics_parallel coroutines on one event loop  *)
(* (each started by _pass_to_exa_helper with create_task), sharing the     *)
(* module global browser.  A step is what runs between two awaits.  Each   *)
(* run has one batch.                                                      *)
(***************************************************************************)
Runs == {1, 2}

MaxRunClinics == 2

\* One process_clinic coroutine: on is the browser its context was opened on
\* (0 before that), outcome is "ok" or "error" once it is done.
RunTask(pc, on, outcome) == [pc |-> pc, on |-> on, outcome |-> outcome]

Run(pc, n, ts) == [pc |-> pc, n |-> n, tasks |-> ts]

InitOverlap ==
    /\ module_browser = 0
    /\ browsers = [b \in Runs |-> "None"]
    /\ runs \in [Runs -> {Run("launch", n, <<>>) : n \in 1..MaxRunClinics}]
    /\ GuardIdle
    /\ CleanIdle
    /\ DiscIdle
    /\ ChatIdle
    /\ FindIdle
    /\ PipeIdle
    /\ HandoffIdle

\* browser = await playwright.chromium.launch(headless=True): the global is
\* bound to the browser this run launched (the browser is named by the run)
OverlapLaunch(r) ==
    /\ runs[r].pc = "launch"
    /\ browsers' = [browsers EXCEPT ![r] = "open"]
    /\ module_browser' = r
    /\ runs' = [runs EXCEPT ![r].pc = "gather",
                            ![r].tasks = [k \in 1..runs[r].n |-> RunTask("start", 0, "None")]]
    /\ UNCHANGED <<guardVars, cleanVars, discVars, chatVars, findVars, pipeVars, handoffVars>>

\* context = await browser.new_context(): browser is the module global as
\* it is when the coroutine runs
OverlapTaskBegin(r, k) ==
    /\ runs[r].pc = "gather"
    /\ k \in DOMAIN runs[r].tasks
    /\ runs[r].tasks[k].pc = "start"
    /\ runs' = [runs EXCEPT ![r].tasks[k] =
                   IF browsers[module_browser] = "open"
                   THEN RunTask("visit", module_browser, "None")
                   ELSE RunTask("done", 0, "error")]
    /\ UNCHANGED <<module_browser, browsers, guardVars, cleanVars, discVars, chatVars, findVars, pipeVars, handoffVars>>

\* page.goto ... context.close() on the task's own context; every call on a
\* context of a closed browser raises
OverlapTaskVisit(r, k) ==
    /\ runs[r].pc = "gather"
    /\ k \in DOMAIN runs[r].tasks
    /\ runs[r].tasks[k].pc = "visit"
    /\ runs' = [runs EXCEPT ![r].tasks[k] =
                   RunTask("done", runs[r].tasks[k].on,
                           IF browsers[runs[r].tasks[k].on] = "open" THEN "ok" ELSE "error")]
    /\ UNCHANGED <<module_browser, browsers, guardVars, cleanVars, discVars, chatVars, findVars, pipeVars, handoffVars>>

\* gather returns, return results, finally: if browser: await browser.close()
OverlapReturn(r) ==
    /\ runs[r].pc = "gather"
    /\ \A k \in DOMAIN runs[r].tasks : runs[r].tasks[k].pc = "done"
    /\ browsers' = [browsers EXCEPT ![module_browser] = "closed"]
    /\ runs' = [runs EXCEPT ![r].pc = "returned"]
    /\ UNCHANGED <<module_browser, guardVars, cleanVars, discVars, chatVars, findVars, pipeVars, handoffVars>>

NextOverlap ==
    \/ \E r \in Runs : OverlapLaunch(r)
    \/ \E r \in Runs, k \in 1..MaxRunClinics : OverlapTaskBegin(r, k)
    \/ \E r \in Runs, k \in 1..MaxRunClinics : OverlapTaskVisit(r, k)
    \/ \E r \in Runs : OverlapReturn(r)

SpecOverlap == InitOverlap /\ [][NextOverlap]_vars

\* C28: the context of every task is on the browser its own run launched,
\* no browser is closed while a task of a run still works on it, and when
\* every run has returned every launched browser is closed.
C28_RunsKeepToOwnBrowser ==
    /\ \A r \in Runs : \A k \in DOMAIN runs[r].tasks :
          runs[r].tasks[k].on \in {0, r}
    /\ \A r \in Runs : \A k \in DOMAIN runs[r].tasks :
          runs[r].tasks[k].pc = "visit" => browsers[runs[r].tasks[k].on] = "open"
    /\ (\A r \in Runs : runs[r].pc = "returned") =>
          \A b \in Runs : browsers[b] = "closed"

\* The positions in the calls of the last turn at which name was called.
CallsOf(name) == {i \in DOMAIN turn.calls : turn.calls[i] = name}

\* C31: the continuation is fired once on the turn that completes the
\* record, InstitutionFinder before the appointment engine, and on no other
\* turn; no session is handed to it twice.
C31_ContinuationFiredOnce ==
    /\ TransitionTurn => Cardinality(CallsOf("exa_helper")) = 1
    /\ (turn.key # <<>> /\ turn.was_complete) => CallsOf("exa_helper") = {}
    /\ \A j \in CallsOf("appointment_processing") : \E i \in CallsOf("exa_helper") : i < j
    /\ \A i, j \in DOMAIN continuations :
          continuations[i].session_id = continuations[j].session_id => i = j

(***************************************************************************)
(* SpecHandoff: _pass_to_exa_helper called by several continuations of one *)
(* process.  Each call runs process_patient_from_main, which writes        *)
(* processed_medical_data.json, and schedules a discovery run with         *)
(* create_task; the run starts once the event loop gets control and then   *)
(* loads its clinics from that file.                                       *)
(***************************************************************************)
MaxContinuations == 3

\* What exa.search_and_contents may return to a continuation.
HandoffSearches ==
    { <<>>,
      <<SearchItem("St Mary Hospital", "https://stmary.org", <<"Yes, Aetna is accepted.">>)>>,
      <<SearchItem("Mayo Urgent Care", "https://mayoclinic.org/care", <<"No.">>),
        SearchItem("City Clinic", "https://cityclinic.com", <<>>),
        SearchItem("Veterans Health", "https://va.gov/find", <<"We do not accept Aetna.">>)>> }

Scheduled(returned, loaded) == [returned |-> returned, clinics |-> loaded]

\* the clinic load_clinics makes of one item of the file
Clinic(item) ==
    [name |-> item.hospital_name, website |-> item.link,
     institution_type |-> item.institution_type,
     accepts_user_insurance |-> item.accepts_user_insurance]

\* load_clinics(): the file as it is when the run reads it; no file, no clinics
load_clinics(file) ==
    IF file = <<>> THEN <<>> ELSE [i \in DOMAIN file[1] |-> Clinic(file[1][i])]

InitHandoff ==
    /\ exa = TRUE
    /\ exa_insurance = <<"Aetna">>
    /\ search_results = <<>>
    /\ hospitals = <<>>
    /\ processed_file = <<>>
    /\ scheduled = <<>>
    /\ GuardIdle
    /\ CleanIdle
    /\ DiscIdle
    /\ ChatIdle
    /\ PipeIdle
    /\ OverlapIdle

\* _pass_to_exa_helper: process_patient_from_main(medical_data), then
\* current_loop.create_task(process_medical_institutions_for_api())
PassToExaHelper ==
    /\ Len(scheduled) < MaxContinuations
    /\ \E items \in HandoffSearches :
          LET found == FetchHospitals(items, exa_insurance, exa, <<>>) IN
          /\ processed_file' = <<found>>
          /\ scheduled' = Append(scheduled, Scheduled(found, <<>>))
    /\ UNCHANGED <<exa, exa_insurance, search_results, hospitals,
                   guardVars, cleanVars, discVars, chatVars, pipeVars, overlapVars>>

\* main(): clinics = load_clinics(), when the scheduled task c starts
LoadClinics(c) ==
    /\ c \in DOMAIN scheduled
    /\ scheduled[c].clinics = <<>>
    /\ scheduled' = [scheduled EXCEPT ![c].clinics = <<load_clinics(processed_file)>>]
    /\ UNCHANGED <<findVars, guardVars, cleanVars, discVars, chatVars, pipeVars, overlapVars>>

NextHandoff ==
    \/ PassToExaHelper
    \/ \E c \in 1..MaxContinuations : LoadClinics(c)

SpecHandoff == InitHandoff /\ [][NextHandoff]_vars

\* C32: the run of a continuation loads exactly the institutions the finder
\* returned to that continuation.
C32_RunProcessesOwnList ==
    \A c \in DOMAIN scheduled :
        scheduled[c].clinics # <<>> =>
            scheduled[c].clinics[1] =
                [i \in DOMAIN scheduled[c].returned |-> Clinic(scheduled[c].returned[i])]

\* C33: a stored snapshot list holds the snapshots of one session only.
C33_SnapshotListPerSession ==
    \A suffix \in DOMAIN patient_files :
        \A i, j \in DOMAIN patient_files[suffix] :
            patient_files[suffix][i].session_id = patient_files[suffix][j].session_id

(***************************************************************************)
(* SpecSession: one client talking to /api/chat, every request after the   *)
(* first under the session id the server answered with; monitoring off,    *)
(* inputs that pass the input guardrail, a continuation that succeeds.     *)
(***************************************************************************)
MaxSessionTurns == 3

SessionTexts == {text \in Utterances : ~InputBlocked(text)}

SessionIntakeAnswers == {<<>>, <<"Thanks. What is your ZIP code?">>}

SessionExtractionOutputs ==
    { ExtractionOutput("raises", <<>>),
      UnparsedOutput("I found nothing new."),
      ExtractionOutput("json", ExtractedData(TRUE, <<>>, <<"10001">>, <<"">>, <<"Cigna">>,
                                             <<"cough">>)) }

SessionReasoningAnswers == {<<"Please consult a doctor about this.">>}

InitSession ==
    /\ patient_sessions = <<>>
    /\ session_counters = <<>>
    /\ wandb_run = <<>>
    /\ patient_files = <<>>
    /\ extracted_file = <<>>
    /\ continuations = <<>>
    /\ chat_response = <<>>
    /\ turn = NoTurn
    /\ served = {}
    /\ GuardIdle
    /\ CleanIdle
    /\ DiscIdle
    /\ FindIdle
    /\ PipeIdle
    /\ OverlapIdle
    /\ HandoffIdle

\* the session id of the client's next request
SessionId == IF DOMAIN patient_sessions = {} THEN "c1"
             ELSE CHOOSE k \in DOMAIN patient_sessions : TRUE

\* POST /api/chat by this client
SessionTurn(text, intake, out, reasoning) ==
    /\ turn.n < MaxSessionTurns
    /\ LET requested == Bump(session_counters, SessionId)
           input_events == LoggedEvents(requested, <<>>, InputChecked[text])
           counters == log_guardrail_event(requested, <<>>)
       IN  ChatProcessed(SessionId, SessionId, text, counters, input_events, <<>>,
                         intake, out, reasoning, "ok")
    /\ UNCHANGED <<guardVars, cleanVars, discVars, findVars, pipeVars, overlapVars, handoffVars>>

NextSession ==
    \E text \in SessionTexts :
        \E intake \in IntakeAsked(SessionId, text) \cap (SessionIntakeAnswers \cup {<<>>}) :
            \E out \in ExtractionAsked(SessionId, text, intake)
                           \cap (SessionExtractionOutputs \cup {ExtractionOutput("no_json", <<>>)}) :
                \E reasoning \in ReasoningAsked(SessionId, text, intake, out)
                                     \cap (SessionReasoningAnswers \cup {<<>>}) :
                    SessionTurn(text, intake, out, reasoning)

SpecSession == InitSession /\ [][NextSession]_vars

\* The record of the session, <<>> before the first request.
SessionRecord == IF DOMAIN patient_sessions = {} THEN PatientData("") ELSE patient_sessions[SessionId]

IsSynthesized(condition) ==
    condition # <<>> /\ Len(condition[1]) >= 17 /\ SubSeq(condition[1], 1, 17) = "Patient reports: "

\* A step in which medical_condition is synthesized from the symptoms.
Synthesizes ==
    /\ DOMAIN patient_sessions' # {}
    /\ ~IsSynthesized(SessionRecord.medical_condition)
    /\ IsSynthesized(SessionRecord'.medical_condition)

C35_ExtractionBeforeIntake ==
    (turn.n > 0 /\ ~turn.was_complete /\ turn.calls # <<>>)
        => /\ Cardinality(CallsOf("chat_agent")) = 1
           /\ \A i \in CallsOf("chat_agent") :
                 \E j \in CallsOf("extract_and_update") : j < i


\* C36: the patient_data returned by a processed turn equals the session's
\* record as it stands when the turn ends, the transition turn included.
C36_ReturnedSnapshotIsRecord ==
    (turn.n > 0 /\ turn.key # <<>> /\ chat_response # <<>> /\ chat_response[1].status = 200)
        => chat_response[1].patient_data = patient_sessions[turn.key[1]]


\* The texts held by a returned patient_data: the messages of its
\* conversation_history and its reasoning_analysis.
ReturnedTexts(patient_data) ==
    {patient_data.conversation_history[i].message : i \in DOMAIN patient_data.conversation_history}
        \cup {patient_data.reasoning_analysis[i] : i \in DOMAIN patient_data.reasoning_analysis}

\* C37: when the output guardrail blocks a role's response, the blocked text
\* is neither the returned response text nor one of the texts of the
\* returned patient_data.
C37_BlockedTextNotReturned ==
    (/\ turn.n > 0 /\ turn.response # <<>> /\ chat_response # <<>>
     /\ Len(turn.validations) = 2 /\ ~turn.validations[2].allowed)
        => /\ chat_response[1].response # turn.response[1].response
           /\ turn.response[1].response \notin ReturnedTexts(chat_response[1].patient_data)


\* the speaker values of the entries of conversation_history
Speakers == {"user", "chat_agent", "reasoning_agent"}

\* The history of session k, empty while the session does not exist.
HistoryOf(sessions, k) ==
    IF k \in DOMAIN sessions THEN sessions[k].conversation_history ELSE <<>>

\* The entries of the roles that answered in the last turn, in the order of
\* their answers.
RoleEntries ==
    (IF turn.intake # <<>> THEN <<Message("chat_agent", turn.intake[1])>> ELSE <<>>)
        \o (IF turn.reasoning # <<>> THEN <<Message("reasoning_agent", turn.reasoning[1])>> ELSE <<>>)

\* C38: conversation_history is append-only: over every request each
\* session's history keeps its entries as a prefix, a turn that passed the
\* input guardrail appends the user's message and then the messages of the
\* roles that answered, and every speaker is a defined speaker value.
C38_HistoryAppendOnly ==
    [][/\ DOMAIN patient_sessions \subseteq DOMAIN patient_sessions'
       /\ \A k \in DOMAIN patient_sessions' :
             LET old == HistoryOf(patient_sessions, k)
                 new == HistoryOf(patient_sessions', k)
             IN  /\ Len(new) >= Len(old)
                 /\ SubSeq(new, 1, Len(old)) = old
                 /\ \A i \in DOMAIN new : new[i].speaker \in Speakers
                 /\ new = IF turn'.key = <<k>>
                          THEN old \o <<Message("user", turn'.text)>> \o RoleEntries'
                          ELSE old]_vars

\* A transition turn on a session that already had a history: the user's
\* message and the messages of both roles were appended.
C38_Witness ==
    /\ turn.n = 2
    /\ turn.key # <<>>
    /\ turn.intake # <<>> /\ turn.reasoning # <<>>
    /\ Len(patient_sessions[turn.key[1]].conversation_history) = 5

(***************************************************************************)
(* SpecReply: validate_ai_response applied to one generated text           *)
(***************************************************************************)
ReplyPrefixes ==
    {"", "You have ", "I recommend rest. ", "YOU HAVE been told about ", "You should take care: "}
ReplyCores ==
    {"cancer", "diabetes", "heart disease", "a cold", "this will cure you", "this will cures",
     "guaranteed to work", "you need to rest", "you are diagnosed with flu",
     "you don't need a doctor", "stop taking your medication", "My Advice Is sleep"}
ReplySuffixes ==
    {"", ".", "s", " Please consult a doctor.", " See a Healthcare Provider", "\nIt is not cancer"}

GeneratedTexts == {p \o c \o x : p \in ReplyPrefixes, c \in ReplyCores, x \in ReplySuffixes}

InitReply ==
    /\ ai_response \in GeneratedTexts
    /\ ai_result = <<>>
    /\ user_input = ""
    /\ input_result = <<>>
    /\ CleanIdle
    /\ DiscIdle
    /\ ChatIdle
    /\ FindIdle
    /\ PipeIdle
    /\ OverlapIdle
    /\ HandoffIdle

\* GuardrailValidator.validate_ai_response(response['response'])
ValidateResponse ==
    /\ ai_result = <<>>
    /\ ai_result' = <<validate_ai_response(ai_response)>>
    /\ UNCHANGED <<ai_response, user_input, input_result, cleanVars, discVars, chatVars, findVars, pipeVars, overlapVars, handoffVars>>

NextReply == ValidateResponse

SpecReply == InitReply /\ [][NextReply]_vars

\* The text, read in lower case, holds a definitive claim of the list.
HasDefinitiveClaim(text) ==
    \E k \in 1..Len(problematic_phrases) : Search(problematic_phrases[k].re, lower(text), FALSE)

\* The text, read in lower case, holds directive phrasing.
HasDirectivePhrasing(text) ==
    \E k \in 1..Len(advice_phrases) : Contains(lower(text), advice_phrases[k])

\* The text, read in lower case, holds a consult-a-professional term.
HasDisclaimer(text) ==
    \E k \in 1..Len(disclaimer_terms) : Contains(lower(text), disclaimer_terms[k])

\* C39: validate_ai_response rejects every text with a definitive claim;
\* a text without one is rejected exactly when it has directive phrasing and
\* no disclaimer term.
C39_ResponseVerdict ==
    ai_result # <<>> =>
        /\ HasDefinitiveClaim(ai_response) => ~ai_result[1].allowed
        /\ ~HasDefinitiveClaim(ai_response) =>
              (~ai_result[1].allowed
                  <=> (HasDirectivePhrasing(ai_response) /\ ~HasDisclaimer(ai_response)))

\* A text with a definitive claim, directive phrasing and a disclaimer was
\* rejected.
C39_Witness ==
    /\ ai_result # <<>>
    /\ HasDefinitiveClaim(ai_response)
    /\ HasDirectivePhrasing(ai_response)
    /\ HasDisclaimer(ai_response)
    /\ ~ai_result[1].allowed


\* C40: the response to a request in which a role's call failed does not
\* contain the message of the exception that was caught.
C40_ErrorResponseHidesException ==
    (chat_response # <<>> /\ chat_response[1].status = 500)
        => ~Contains(chat_response[1].response, KickoffError)

====
